---- MODULE Spec2Model ----
(***************************************************************************)
(* A model of the upb wire-format encoder (src/upb/encode.c).              *)
(*                                                                         *)
(* The encoder writes its output backwards into a growable buffer.  The    *)
(* model keeps the whole allocation (buf), the write cursor (ptr, an       *)
(* offset from the base of the allocation; limit is the end of buf), the   *)
(* depth counter, the options, the map sorter, and the recursion of the    *)
(* emitters as an explicit stack of pending calls.  Every primitive write  *)
(* (encode_bytes, encode_varint) is one step; every allocation may fail.   *)
(*                                                                         *)
(* Integers of the C code are bit vectors (sequences of 0/1, least         *)
(* significant bit first) of their C width, so that shifts, sign           *)
(* extension and truncation are computed as the code computes them.        *)
(***************************************************************************)
EXTENDS Integers, Sequences, FiniteSets, TLC

VARIABLES
  pc,          \* "start" | "encoding" | "failed" | "done" | "overflow": position of
               \* upb_encode_ex
  big_endian,  \* the host's byte order (_upb_isle() is false)
  heap,        \* message memory: the messages reachable from root, by address
  root,        \* the message handed to upb_encode_ex (an address)
  options,     \* the options bitmask handed to upb_encode_ex
  buf,         \* ctx.buf .. ctx.limit: the current allocation (<<>> is NULL)
  ptr,         \* e.ptr, as an offset from ctx.buf
  depth,       \* ctx.depth
  sorter,      \* ctx.sorter
  stack,       \* pending emitter calls, innermost first
  size,        \* the last value stored through a size out-parameter
  ret,         \* what upb_encode_ex returns
  status,      \* why the encode ended: "ok", "oom", "maxdepth", "overflow"
  allocs,      \* number of upb_malloc calls of this encode
  run,         \* index of the encode in a sequence of encodes
  prev         \* what the previous encode of the sequence returned

vars == <<pc, big_endian, heap, root, options, buf, ptr, depth, sorter, stack, size,
          ret, status, allocs, run, prev>>

-----------------------------------------------------------------------------
(* Bit vectors *)

RECURSIVE Bits(_, _)
\* The w low bits of the integer n in two's complement, LSB first.
Bits(n, w) == IF w = 0 THEN <<>> ELSE <<n % 2>> \o Bits(n \div 2, w - 1)

Zeros(w) == [i \in 1..w |-> 0]

\* (uint64_t) of an unsigned value
ZeroExt(b, w) == b \o Zeros(w - Len(b))

\* (int64_t) of a signed value
SignExt(b, w) == b \o [i \in 1..(w - Len(b)) |-> b[Len(b)]]

\* The value of a byte given as 8 bits
ByteVal(b) == b[1] + 2*b[2] + 4*b[3] + 8*b[4] + 16*b[5] + 32*b[6] + 64*b[7] + 128*b[8]

\* The natural number a bit vector stands for (only used on small values)
RECURSIVE BitsToNat(_)
BitsToNat(b) == IF b = <<>> THEN 0 ELSE b[1] + 2 * BitsToNat(Tail(b))

\* The bytes of a value of 8, 32 or 64 bits, least significant byte first
RECURSIVE LEBytes(_)
LEBytes(b) == IF Len(b) = 0 THEN <<>>
              ELSE <<ByteVal(SubSeq(b, 1, 8))>> \o LEBytes(SubSeq(b, 9, Len(b)))

RECURSIVE Reverse(_)
Reverse(s) == IF s = <<>> THEN <<>> ELSE Append(Reverse(Tail(s)), Head(s))

RECURSIVE Concat(_)
\* Concatenation of a sequence of sequences
Concat(ss) == IF ss = <<>> THEN <<>> ELSE Head(ss) \o Concat(Tail(ss))

-----------------------------------------------------------------------------
(* Primitive encodings: encode.c lines 41-55 *)

UPB_PB_VARINT_MAX_LEN == 10

\* val > 127, for a 64-bit val
Above127(val) == \E i \in 8..Len(val) : val[i] = 1

\* val >>= 7, for a 64-bit val
Shr7(val) == SubSeq(val, 8, Len(val)) \o Zeros(7)

\* val > 128, for a 64-bit val
Above128(val) == Above127(val) /\ val # Bits(128, Len(val))

RECURSIVE encode_varint64_above128(_)
\* The bytes of a loop that runs while (val > 128)
encode_varint64_above128(val) ==
  IF Above128(val)
  THEN <<ByteVal(SubSeq(val, 1, 7) \o <<1>>)>> \o encode_varint64_above128(Shr7(val))
  ELSE <<ByteVal(SubSeq(val, 1, 8))>>

RECURSIVE encode_varint64(_)
\* The bytes encode_varint64 stores at buf, in increasing address order.
encode_varint64(val) ==
  IF Above127(val)
  THEN <<ByteVal(SubSeq(val, 1, 7) \o <<1>>)>> \o encode_varint64(Shr7(val))
  ELSE <<ByteVal(SubSeq(val, 1, 8))>>

Xor(a, b) == [i \in 1..Len(a) |-> (a[i] + b[i]) % 2]

\* The zigzag code with a logical shift: ((uint32_t)n << 1) ^ ((uint32_t)n >> 31)
encode_zz32_logical(n) ==
  Xor(<<0>> \o SubSeq(n, 1, 31), <<n[32]>> \o [i \in 1..31 |-> 0])

\* ((uint32_t)n << 1) ^ (n >> 31), n a 32-bit vector; the result is a uint32_t
encode_zz32(n) ==
  Xor(<<0>> \o SubSeq(n, 1, 31), [i \in 1..32 |-> n[32]])

\* ((uint64_t)n << 1) ^ (n >> 63), n a 64-bit vector
encode_zz64(n) ==
  Xor(<<0>> \o SubSeq(n, 1, 63), [i \in 1..64 |-> n[64]])

-----------------------------------------------------------------------------
(* Buffer manager: encode.c lines 73-136.  e is [buf, ptr, ok]; ok = FALSE *)
(* stands for the longjmp of encode_err.                                   *)

\* An indeterminate byte: what malloc'ed memory and the unwritten part of a
\* stack array hold.
Garbage == -1

RECURSIVE RoundupLoop(_, _)
RoundupLoop(r, bytes) == IF r < bytes THEN RoundupLoop(r * 2, bytes) ELSE r

\* A rounding that begins at 1 and not at 128
upb_roundup_pow2_from1(bytes) == RoundupLoop(1, bytes)

upb_roundup_pow2(bytes) == RoundupLoop(128, bytes)

\* memcpy(base + at, data, Len(data)) on the allocation b
Memcpy(b, at, data) ==
  [i \in 1..Len(b) |->
     IF i > at /\ i <= at + Len(data) THEN data[i - at] ELSE b[i]]

\* The bytes at [ptr, limit)
Written(b, p) == SubSeq(b, p + 1, Len(b))

\* A growth that keeps the old bytes at the front of the new buffer, as realloc
\* leaves them, and does not move them to its end
encode_growbuffer_front(e, bytes, malloc_ok) ==
  LET cur_size == Len(e.buf) - e.ptr
      new_size == upb_roundup_pow2(bytes + cur_size)
      new_buf  == e.buf \o [i \in 1..(new_size - Len(e.buf)) |-> Garbage]
  IN  IF ~malloc_ok
      THEN [e EXCEPT !.ok = FALSE]
      ELSE [buf |-> new_buf, ptr |-> (new_size - cur_size) - bytes, ok |-> TRUE]

encode_growbuffer(e, bytes, malloc_ok) ==
  LET cur_size == Len(e.buf) - e.ptr
      new_size == upb_roundup_pow2(bytes + cur_size)
      new_buf  == [i \in 1..new_size |-> Garbage]
  IN  IF ~malloc_ok
      THEN [e EXCEPT !.ok = FALSE]
      ELSE [buf |-> IF cur_size > 0
                    THEN Memcpy(new_buf, new_size - cur_size, Written(e.buf, e.ptr))
                    ELSE new_buf,
            ptr |-> (new_size - cur_size) - bytes,
            ok  |-> TRUE]

encode_reserve(e, bytes, malloc_ok) ==
  IF e.ptr < bytes
  THEN encode_growbuffer(e, bytes, malloc_ok)
  ELSE [e EXCEPT !.ptr = e.ptr - bytes]

encode_bytes(e, data, malloc_ok) ==
  IF Len(data) = 0
  THEN e
  ELSE LET r == encode_reserve(e, Len(data), malloc_ok)
       IN  IF r.ok THEN [r EXCEPT !.buf = Memcpy(r.buf, r.ptr, data)] ELSE r

\* A slow path that leaves the cursor where encode_reserve put it, below the
\* 16 copied bytes
encode_longvarint_whole(e, val, malloc_ok) ==
  LET bytes   == encode_varint64(val)
      n       == Len(bytes)
      scratch == [i \in 1..16 |-> Garbage] \o bytes \o [i \in 1..(16 - n) |-> Garbage]
      r       == encode_reserve(e, 16, malloc_ok)
  IN  IF r.ok
      THEN [r EXCEPT !.buf = Memcpy(r.buf, r.ptr, SubSeq(scratch, n + 1, n + 16))]
      ELSE r

\* encode.c lines 152-163: the varint is built at buffer + 16 and the 16 bytes
\* that end at its last byte are copied.
encode_longvarint(e, val, malloc_ok) ==
  LET bytes   == encode_varint64(val)
      n       == Len(bytes)
      scratch == [i \in 1..16 |-> Garbage] \o bytes \o [i \in 1..(16 - n) |-> Garbage]
      r       == encode_reserve(e, 16, malloc_ok)
  IN  IF r.ok
      THEN [r EXCEPT !.buf = Memcpy(r.buf, r.ptr, SubSeq(scratch, n + 1, n + 16)),
                     !.ptr = r.ptr + 16 - n]
      ELSE r

encode_varint(e, val, malloc_ok) ==
  IF ~Above127(val) /\ e.ptr # 0
  THEN [e EXCEPT !.ptr = e.ptr - 1,
                 !.buf = Memcpy(e.buf, e.ptr - 1, <<ByteVal(SubSeq(val, 1, 8))>>)]
  ELSE encode_longvarint(e, val, malloc_ok)

\* _upb_be_swap32 / _upb_be_swap64: the value whose bytes in host memory are
\* the little-endian bytes of val.
upb_be_swap(val) ==
  IF big_endian
  THEN Concat([i \in 1..(Len(val) \div 8) |->
                 SubSeq(val, Len(val) - 8 * i + 1, Len(val) - 8 * i + 8)])
  ELSE val

\* The bytes of a value as they lie in host memory, lowest address first
HostBytes(val) == IF big_endian THEN Reverse(LEBytes(val)) ELSE LEBytes(val)

\* encode_fixed32 / encode_fixed64: the bytes handed to encode_bytes
encode_fixed(val) == HostBytes(upb_be_swap(val))

\* encode_tag: the value handed to encode_varint
encode_tag(field_number, wire_type) == Bits(field_number * 8 + wire_type, 64)

-----------------------------------------------------------------------------
(* Wire types (spec 6.2) *)

UPB_WIRE_TYPE_VARINT == 0
UPB_WIRE_TYPE_64BIT == 1
UPB_WIRE_TYPE_DELIMITED == 2
UPB_WIRE_TYPE_START_GROUP == 3
UPB_WIRE_TYPE_END_GROUP == 4
UPB_WIRE_TYPE_32BIT == 5

\* Option bits and the position of the depth override
UPB_ENCODE_DETERMINISTIC == 1
UPB_ENCODE_SKIPUNKNOWN == 2
DepthShift == 65536

-----------------------------------------------------------------------------
(* Layouts, as protoc-gen-upb.cc writes them *)

\* SizeRep and WriteField: the representation of a field's slot
SizeRep(type, mode) ==
  IF mode # "SCALAR" THEN "PTR"
  ELSE CASE type \in {"MESSAGE", "GROUP"} -> "PTR"
         [] type \in {"ENUM", "FLOAT", "INT32", "UINT32", "SINT32", "FIXED32", "SFIXED32"} -> "4BYTE"
         [] type = "BOOL" -> "1BYTE"
         [] type \in {"DOUBLE", "INT64", "UINT64", "SINT64", "FIXED64", "SFIXED64"} -> "8BYTE"
         [] type \in {"STRING", "BYTES"} -> "STRVIEW"

\* One upb_msglayout_field
WriteField(number, type, mode, packed, presence, offset, submsg_index) ==
  [number |-> number, descriptortype |-> type, mode |-> mode, packed |-> packed,
   presence |-> presence, offset |-> offset, submsg_index |-> submsg_index,
   rep |-> SizeRep(type, mode)]

\* Presence of a member of the oneof whose case is stored at case_offset
OneofPresence(case_offset) == 0 - case_offset - 1

\* The offset of the oneof case of the "S" layout
SCaseOffset == 28

SFields == <<
  WriteField(1,  "INT32",   "SCALAR", FALSE, 1, 4,  0),
  WriteField(2,  "STRING",  "SCALAR", FALSE, 0, 8,  0),
  WriteField(3,  "SINT32",  "SCALAR", FALSE, 0, 24, 0),
  WriteField(4,  "BOOL",    "SCALAR", FALSE, OneofPresence(SCaseOffset), 32, 0),
  WriteField(5,  "FIXED64", "SCALAR", FALSE, OneofPresence(SCaseOffset), 32, 0),
  WriteField(6,  "ENUM",    "SCALAR", FALSE, 0, 40, 0),
  WriteField(7,  "SINT64",  "SCALAR", FALSE, 2, 48, 0),
  WriteField(8,  "UINT32",  "SCALAR", FALSE, 0, 56, 0),
  WriteField(9,  "DOUBLE",  "SCALAR", FALSE, 3, 64, 0),
  WriteField(10, "FIXED32", "SCALAR", FALSE, 0, 72, 0),
  WriteField(16, "INT64",   "SCALAR", FALSE, 0, 80, 0) >>

\* The scalar types of which S holds none
TFields == <<
  WriteField(1, "FLOAT",    "SCALAR", FALSE, 0, 4,  0),
  WriteField(2, "UINT64",   "SCALAR", FALSE, 0, 8,  0),
  WriteField(3, "SFIXED32", "SCALAR", FALSE, 0, 16, 0),
  WriteField(4, "SFIXED64", "SCALAR", FALSE, 1, 24, 0) >>

RFields == <<
  WriteField(1, "INT32",   "ARRAY", TRUE,  0, 8,  0),
  WriteField(2, "ENUM",    "ARRAY", FALSE, 0, 16, 0),
  WriteField(3, "FIXED32", "ARRAY", TRUE,  0, 24, 0),
  WriteField(4, "DOUBLE",  "ARRAY", FALSE, 0, 32, 0),
  WriteField(5, "STRING",  "ARRAY", FALSE, 0, 40, 0),
  WriteField(6, "SINT32",  "ARRAY", TRUE,  0, 48, 0),
  WriteField(7, "BOOL",    "ARRAY", TRUE,  0, 56, 0),
  WriteField(8, "BYTES",   "SCALAR", FALSE, 0, 64, 0) >>

NFields == <<
  WriteField(1, "MESSAGE", "SCALAR", FALSE, 1, 8,  0),
  WriteField(2, "GROUP",   "SCALAR", FALSE, 2, 16, 0),
  WriteField(3, "MESSAGE", "ARRAY",  FALSE, 0, 24, 0),
  WriteField(4, "MESSAGE", "MAP",    FALSE, 0, 32, 1),
  WriteField(5, "INT32",   "SCALAR", FALSE, 0, 40, 0),
  WriteField(6, "GROUP",   "ARRAY",  FALSE, 0, 48, 0) >>

\* The offset of the oneof case of the "O" layout
OCaseOffset == 4

OFields == <<
  WriteField(1, "MESSAGE", "SCALAR", FALSE, OneofPresence(OCaseOffset), 8, 0),
  WriteField(2, "GROUP",   "SCALAR", FALSE, OneofPresence(OCaseOffset), 8, 0),
  WriteField(3, "MESSAGE", "SCALAR", FALSE, 1, 16, 0),
  WriteField(4, "INT32",   "SCALAR", FALSE, 0, 24, 0) >>

MFields == <<
  WriteField(1, "MESSAGE", "MAP", FALSE, 0, 8,  0),
  WriteField(2, "MESSAGE", "MAP", FALSE, 0, 16, 1),
  WriteField(7, "MESSAGE", "MAP", FALSE, 0, 24, 0),
  WriteField(9, "MESSAGE", "MAP", FALSE, 0, 32, 2) >>

\* Map entry layouts: fields[0] is the key (number 1), fields[1] the value
\* (number 2)
EntryFields(ktype, vtype) == <<
  WriteField(1, ktype, "SCALAR", FALSE, 0, 0,  0),
  WriteField(2, vtype, "SCALAR", FALSE, 0, 16, 0) >>

\* upb_msglayout by name: WriteMessage
Layout(name) ==
  CASE name = "S"   -> [fields |-> SFields, subs |-> <<>>, ext |-> "NONE"]
    [] name = "R"   -> [fields |-> RFields, subs |-> <<>>, ext |-> "NONE"]
    [] name = "T"   -> [fields |-> TFields, subs |-> <<>>, ext |-> "NONE"]
    [] name = "N"   -> [fields |-> NFields, subs |-> <<"N", "E_IN">>, ext |-> "EXTENDABLE"]
    [] name = "M"   -> [fields |-> MFields, subs |-> <<"E_II", "E_SS", "E_BI">>, ext |-> "NONE"]
    [] name = "MS"  -> [fields |-> <<>>, subs |-> <<>>, ext |-> "MSGSET"]
    [] name = "O"   -> [fields |-> OFields, subs |-> <<"N">>, ext |-> "NONE"]
    [] name = "E_II" -> [fields |-> EntryFields("INT32", "INT32"), subs |-> <<>>, ext |-> "NONE"]
    [] name = "E_SS" -> [fields |-> EntryFields("STRING", "STRING"), subs |-> <<>>, ext |-> "NONE"]
    [] name = "E_IN" -> [fields |-> EntryFields("INT32", "MESSAGE"), subs |-> <<"N">>, ext |-> "NONE"]
    [] name = "E_BI" -> [fields |-> EntryFields("BOOL", "INT32"), subs |-> <<>>, ext |-> "NONE"]

\* upb_msglayout_ext: WriteExtension (offset 0, presence 0, submsg_index 0)
WriteExtension(number, type, mode, packed, sub) ==
  [field |-> WriteField(number, type, mode, packed, 0, 0, 0), sub |-> sub]

ExtMsgN == WriteExtension(100, "MESSAGE", "SCALAR", FALSE, "N")
ExtInt  == WriteExtension(101, "INT32", "SCALAR", FALSE, "")
ExtStr  == WriteExtension(102, "STRING", "SCALAR", FALSE, "")
ExtSetN == WriteExtension(200, "MESSAGE", "SCALAR", FALSE, "N")
ExtSetS == WriteExtension(201, "MESSAGE", "SCALAR", FALSE, "MS")

-----------------------------------------------------------------------------
(* Message memory.  A message is [hasbits, mem, unknown, exts]: mem maps   *)
(* the offsets of the layout to slot values.  A numeric slot is a bit      *)
(* vector, a string view a sequence of bytes, a sub-message pointer a heap *)
(* address (NULL is <<>>), an array or map pointer the object pointed to   *)
(* (with null = TRUE for a null pointer).                                  *)

NULL == <<>>
NullArr == [null |-> TRUE, len |-> 0, data |-> <<>>]
Arr(elems) == [null |-> FALSE, len |-> Len(elems), data |-> elems]
NullMap == [null |-> TRUE, entries |-> <<>>]
\* A map whose table iterates its entries in the given order
Map(entries) == [null |-> FALSE, entries |-> entries]
Ent(k, v) == [k |-> k, v |-> v]
NoUnknown == [null |-> TRUE, data |-> <<>>]
Unknown(bytes) == [null |-> FALSE, data |-> bytes]

I8(n) == Bits(n, 8)
I32(n) == Bits(n, 32)
I64(n) == Bits(n, 64)

ZeroSlot(f) ==
  CASE f.mode = "ARRAY" -> NullArr
    [] f.mode = "MAP" -> NullMap
    [] f.rep = "PTR" -> NULL
    [] f.rep = "STRVIEW" -> <<>>
    [] f.rep = "1BYTE" -> Zeros(8)
    [] f.rep = "4BYTE" -> Zeros(32)
    [] f.rep = "8BYTE" -> Zeros(64)

FieldsOf(name) == {Layout(name).fields[i] : i \in 1..Len(Layout(name).fields)}

\* The oneof case offsets of a layout
CaseOffsets(name) == {0 - f.presence - 1 : f \in {g \in FieldsOf(name) : g.presence < 0}}

\* upb_msg_new: all slots zero, no unknown fields, no extensions
NewMsg(name) ==
  [hasbits |-> {},
   mem |-> [o \in {f.offset : f \in FieldsOf(name)} \cup CaseOffsets(name) |->
              IF o \in CaseOffsets(name) THEN 0
              ELSE ZeroSlot(CHOOSE f \in FieldsOf(name) :
                              /\ f.offset = o
                              /\ \A g \in FieldsOf(name) : g.offset = o => f.number <= g.number)],
   unknown |-> NoUnknown,
   exts |-> <<>>]

\* Setters of the generated accessors
SetHas(m, hasbit, offset, val) ==
  [m EXCEPT !.hasbits = @ \cup {hasbit}, !.mem[offset] = val]
Set(m, offset, val) == [m EXCEPT !.mem[offset] = val]
SetOneof(m, case_offset, number, offset, val) ==
  [m EXCEPT !.mem[case_offset] = number, !.mem[offset] = val]
AddExt(m, ext, val) == [m EXCEPT !.exts = Append(@, [ext |-> ext, data |-> val])]
SetUnknown(m, bytes) == [m EXCEPT !.unknown = Unknown(bytes)]

-----------------------------------------------------------------------------
(* The messages of the model *)

\* Length of the longest chain of nested messages
MaxChain == 4
\* Largest depth override handed in the options (0 selects the default)
MaxDepthOpt == 3
\* The number of nested activations of encode_message_impl the C stack holds
StackLimit == 80

MinInt32 == 0 - 2147483647 - 1
Int32Samples == <<MinInt32, -1, 0, 1, 127, 128, 150, 2147483647>>

\* A record of unknown field 15 (varint 5) and a long record of field 15
ShortBlob == <<120, 5>>
LongBlob == <<122, 118>> \o [i \in 1..118 |-> i]
\* 0x7ff8000000000000 and 0x0102030405060708
Dbl1 == Zeros(51) \o <<1, 1, 1, 1, 1, 1, 1, 1, 1, 1, 1, 1, 0>>
Fx64 == Concat(<<I8(8), I8(7), I8(6), I8(5), I8(4), I8(3), I8(2), I8(1)>>)

LinkKinds == <<"msg", "group", "rep", "mapval", "ext">>

\* The i-th permutation of a sequence of three
Perm3(s, i) ==
  LET o == << <<1, 2, 3>>, <<1, 3, 2>>, <<2, 1, 3>>, <<2, 3, 1>>, <<3, 1, 2>>, <<3, 2, 1>> >>[i]
  IN  <<s[o[1]], s[o[2]], s[o[3]]>>

Leaf == Set(NewMsg("N"), 40, I32(7))

SxMsg(k) ==
  CASE k = 1 ->
         SetOneof(Set(Set(SetHas(NewMsg("S"), 1, 4, I32(0)), 8, <<104, 105>>),
                      24, I32(-1)), SCaseOffset, 4, 32, I8(1))
    [] k = 2 ->
         SetOneof(SetHas(Set(NewMsg("S"), 80, I64(300)), 2, 48, I64(-2)),
                  SCaseOffset, 5, 32, Fx64)
    [] k = 3 ->
         SetHas(Set(Set(NewMsg("S"), 56, I32(-1)), 72, I32(16909060)), 3, 64, Dbl1)
    [] k = 4 ->
         \* a oneof member with a zero value
         SetOneof(Set(NewMsg("S"), 24, I32(MinInt32)), SCaseOffset, 4, 32, I8(0))

\* A byte string of n bytes
Filler(n) == [i \in 1..n |-> i]

RrMsg(k) ==
  CASE k = 1 -> Set(NewMsg("R"), 8, Arr(<<I32(1), I32(150)>>))
    [] k = 2 -> Set(Set(NewMsg("R"), 8, Arr(<<I32(-1), I32(3), I32(MinInt32)>>)),
                    16, Arr(<<I32(-2), I32(1)>>))
    [] k = 3 -> Set(NewMsg("R"), 16, Arr(<<I32(-1), I32(2)>>))
    [] k = 4 -> Set(Set(NewMsg("R"), 24, Arr(<<I32(1), I32(16909060)>>)),
                    32, Arr(<<Dbl1, Fx64>>))
    [] k = 5 -> Set(Set(Set(NewMsg("R"), 40, Arr(<< <<>>, <<97, 98>> >>)),
                        48, Arr(<<I32(-1), I32(64)>>)),
                    56, Arr(<<I8(1), I8(0), I8(1)>>))
    [] k = 6 -> Set(Set(NewMsg("R"), 64, Filler(110)),
                    8, Arr(<<I32(-1), I32(150), I32(7)>>))
    [] k = 7 -> \* arrays without elements
                Set(Set(Set(NewMsg("R"), 8, Arr(<<>>)), 40, Arr(<<>>)), 24, Arr(<<>>))
    [] k = 8 -> Set(Set(Set(NewMsg("R"), 64, Filler(110)),
                        16, Arr(<<I32(5), I32(-7)>>)),
                    24, Arr(<<I32(1), I32(2), I32(3), I32(4), I32(5)>>))

\* A chain of n messages nested through links of the given kind
NcMsg(kind, n) ==
  LET sub == <<"Nc", kind, n - 1>>
  IN  CASE n = 1 -> Leaf
        [] n > 1 /\ LinkKinds[kind] = "msg" -> SetHas(NewMsg("N"), 1, 8, sub)
        [] n > 1 /\ LinkKinds[kind] = "group" -> SetHas(NewMsg("N"), 2, 16, sub)
        [] n > 1 /\ LinkKinds[kind] = "rep" -> Set(NewMsg("N"), 24, Arr(<<sub, sub>>))
        [] n > 1 /\ LinkKinds[kind] = "mapval" ->
             Set(NewMsg("N"), 32, Map(<<Ent(I32(1), sub)>>))
        [] n > 1 /\ LinkKinds[kind] = "ext" -> AddExt(NewMsg("N"), ExtMsgN, sub)

NuMsg(k) ==
  CASE k = 1 -> SetUnknown(NewMsg("N"), ShortBlob)
    [] k = 2 -> SetUnknown(AddExt(AddExt(Leaf, ExtInt, I32(0)), ExtStr, <<120>>), ShortBlob)
    [] k = 3 -> SetUnknown(SetHas(Leaf, 1, 8, <<"Nu", 2>>), <<120, 6>>)
    [] k = 4 -> SetUnknown(Set(Set(Leaf, 24, Arr(<< <<"Nu", 1>>, <<"Nu", 2>> >>)),
                               48, Arr(<< <<"Nu", 1>> >>)), LongBlob)
    [] k = 5 -> \* present according to the hasbits, with null pointers
                SetHas(SetHas(Leaf, 1, 8, NULL), 2, 16, NULL)
    [] k = 6 -> \* an unknown-fields blob of length 0, arrays and a map
                \* without elements
                SetUnknown(Set(Set(Set(Leaf, 24, Arr(<<>>)), 32, Map(<<>>)), 48, Arr(<<>>)),
                           <<>>)
    [] k = 7 -> \* sub-messages with unknown fields behind every kind of link
                AddExt(Set(Set(SetHas(NewMsg("N"), 2, 16, <<"Nu", 1>>),
                               32, Map(<<Ent(I32(-3), <<"Nu", 1>>)>>)),
                           48, Arr(<< <<"Nu", 2>> >>)),
                       ExtMsgN, <<"Nu", 2>>)

\* The same two extensions, attached in either order
NxMsg(k) ==
  IF k = 1
  THEN AddExt(AddExt(Leaf, ExtInt, I32(-4)), ExtStr, <<104, 105>>)
  ELSE AddExt(AddExt(Leaf, ExtStr, <<104, 105>>), ExtInt, I32(-4))

MpMsg(k) ==
  CASE k = 1 -> Set(NewMsg("M"), 24, Map(<<Ent(I32(1), I32(10)), Ent(I32(2), I32(20))>>))
    [] k = 2 -> Set(NewMsg("M"), 24, Map(<<Ent(I32(2), I32(20)), Ent(I32(1), I32(10))>>))
    [] k = 3 -> Set(NewMsg("M"), 8, Map(<<>>))
    [] k = 4 -> Set(NewMsg("M"), 32, Map(<<Ent(I8(1), I32(1)), Ent(I8(0), I32(-1))>>))
    [] k = 5 -> Set(NewMsg("M"), 32, Map(<<Ent(I8(0), I32(-1)), Ent(I8(1), I32(1))>>))

\* Sub-message pointers the oneof case and the hasbits mark present
OoMsg(k) ==
  LET int == Set(NewMsg("O"), 24, I32(9))
  IN  CASE k = 1 -> SetHas(SetOneof(int, OCaseOffset, 1, 8, NULL), 1, 16, NULL)
        [] k = 2 -> SetOneof(int, OCaseOffset, 2, 8, NULL)
        [] k = 3 -> SetHas(SetOneof(int, OCaseOffset, 1, 8, <<"Nu", 1>>), 1, 16, <<"Nu", 6>>)

MqMsg(k) ==
  Set(Set(NewMsg("M"), 8,
          Map(Perm3(<<Ent(I32(-1), I32(5)), Ent(I32(300), I32(0)), Ent(I32(2), I32(-2))>>, k))),
      16, Map(Perm3(<<Ent(<<98>>, <<120>>), Ent(<<97>>, <<>>), Ent(<<97, 97>>, <<121, 122>>)>>,
                    7 - k)))

\* The message stored at an address when upb_encode_ex is called
MsgAt(id) ==
  CASE id[1] = "S0" -> NewMsg("S")
    [] id[1] = "Si" -> SetHas(NewMsg("S"), 1, 4, I32(Int32Samples[id[2]]))
    [] id[1] = "Se" -> Set(NewMsg("S"), 40, I32(Int32Samples[id[2]]))
    [] id[1] = "Sx" -> SxMsg(id[2])
    [] id[1] = "Rr" -> RrMsg(id[2])
    [] id[1] = "Tt" -> SetHas(Set(Set(Set(NewMsg("T"), 4, I32(1069547520)), 8, I64(-1)),
                                  16, I32(-2)), 1, 24, I64(-3))
    [] id[1] = "Nc" -> NcMsg(id[2], id[3])
    [] id[1] = "Ncyc" -> SetHas(NewMsg("N"), 1, 8, <<"Ncyc">>)
    [] id[1] = "Nd" -> \* extensions that hold the defaults of their types
                       AddExt(AddExt(NewMsg("N"), ExtInt, I32(0)), ExtStr, <<>>)
    [] id[1] = "Nu" -> NuMsg(id[2])
    [] id[1] = "Nx" -> NxMsg(id[2])
    [] id[1] = "MSc" ->
         IF id[2] = 1 THEN NewMsg("MS")
         ELSE AddExt(NewMsg("MS"), ExtSetS, <<"MSc", id[2] - 1>>)
    [] id[1] = "MScyc" -> AddExt(NewMsg("MS"), ExtSetS, <<"MScyc">>)
    [] id[1] = "MSx" ->
         SetUnknown(AddExt(AddExt(NewMsg("MS"), ExtSetN, <<"Nu", 1>>), ExtSetS, <<"MSc", 1>>),
                    ShortBlob)
    [] id[1] = "Mp" -> MpMsg(id[2])
    [] id[1] = "Mq" -> MqMsg(id[2])
    [] id[1] = "Oo" -> OoMsg(id[2])

\* The layout that goes with a root message
RootLayout(id) ==
  CASE id[1] \in {"S0", "Si", "Se", "Sx"} -> "S"
    [] id[1] = "Rr" -> "R"
    [] id[1] = "Tt" -> "T"
    [] id[1] \in {"Nc", "Ncyc", "Nd", "Nu", "Nx"} -> "N"
    [] id[1] \in {"MSc", "MSx", "MScyc"} -> "MS"
    [] id[1] \in {"Mp", "Mq"} -> "M"
    [] id[1] = "Oo" -> "O"

\* The addresses of the messages reachable from a message
Reachable(id) ==
  CASE id[1] = "Nc" -> {<<"Nc", id[2], n>> : n \in 1..id[3]}
    [] id[1] = "MSc" -> {<<"MSc", n>> : n \in 1..id[2]}
    [] id = <<"Nu", 3>> -> {id, <<"Nu", 2>>}
    [] id = <<"Nu", 4>> -> {id, <<"Nu", 1>>, <<"Nu", 2>>}
    [] id = <<"Nu", 7>> -> {id, <<"Nu", 1>>, <<"Nu", 2>>}
    [] id[1] = "MSx" -> {id, <<"Nu", 1>>, <<"MSc", 1>>}
    [] id = <<"Oo", 3>> -> {id, <<"Nu", 1>>, <<"Nu", 6>>}
    [] OTHER -> {id}

\* The messages handed to upb_encode_ex
Roots ==
  {<<"S0">>, <<"Ncyc">>, <<"Nd">>, <<"MSx">>, <<"MScyc">>, <<"Tt">>}
  \cup {<<"Si", i>> : i \in 1..Len(Int32Samples)}
  \cup {<<"Se", i>> : i \in 1..Len(Int32Samples)}
  \cup {<<"Sx", i>> : i \in 1..4}
  \cup {<<"Rr", i>> : i \in 1..8}
  \cup {<<"Nc", k, n>> : k \in 1..Len(LinkKinds), n \in 1..MaxChain}
  \cup {<<"Nu", i>> : i \in 1..7}
  \cup {<<"Nx", i>> : i \in 1..2}
  \cup {<<"MSc", n>> : n \in 1..MaxChain}
  \cup {<<"Mp", i>> : i \in 1..5}
  \cup {<<"Mq", i>> : i \in 1..6}
  \cup {<<"Oo", i>> : i \in 1..3}

-----------------------------------------------------------------------------
(* Reading message memory *)

\* A message reference is a heap address, or <<"ext", address, i>> for the
\* data of the i-th extension of a message (&ext->data).
Mem(ref, offset) ==
  IF ref[1] = "ext" THEN heap[ref[2]].exts[ref[3]].data
  ELSE heap[ref].mem[offset]

\* _upb_hasbit_field
upb_hasbit_field(ref, f) == f.presence \in heap[ref].hasbits

\* _upb_getoneofcase_field: the case stored at offset ~presence
upb_getoneofcase_field(ref, f) == heap[ref].mem[0 - f.presence - 1]

\* The bytes of a numeric slot are not all zero
NonZero(v) == \E i \in 1..Len(v) : v[i] # 0

-----------------------------------------------------------------------------
(* Pending calls.  The emitters are given as the sequence of calls they    *)
(* make, in the order they make them.                                      *)

OpBytes(data) == [op |-> "bytes", data |-> data]
OpVarint(val) == [op |-> "varint", val |-> val]
\* encode_varint(&e, size), size being what the callee just stored
OpVarintSize == [op |-> "varint_size"]
\* encode_varint(&e, e.ctx->limit - e.ptr - pre_len)
OpVarintLen(pre_len) == [op |-> "varint_len", pre_len |-> pre_len]
OpTag(number, wire_type) == OpVarint(encode_tag(number, wire_type))
OpDepthDec == [op |-> "depth_dec"]
OpDepthInc == [op |-> "depth_inc"]
OpMessage(msg, m) == [op |-> "message", msg |-> msg, m |-> m]
OpMsgEnd(msg, m, pre_len) == [op |-> "msg_end", msg |-> msg, m |-> m, pre_len |-> pre_len]
OpField(msg, subs, f, check) ==
  [op |-> "field", msg |-> msg, subs |-> subs, f |-> f, check |-> check]
OpMapEntry(number, layout, ent) ==
  [op |-> "mapentry", number |-> number, layout |-> layout, ent |-> ent]
OpPopMap(start) == [op |-> "popmap", start |-> start]

\* (uint32_t)val in its place: the value is not sign-extended
ZeroExtend32(val) == ZeroExt(val, 64)

\* (int64_t)val of an int32_t val: encode.c lines 274 and 400
SignExtend32(val) == SignExt(val, 64)

\* A null sub-message pointer written as a sub-message without fields
encode_scalar_impl_nullasempty(val, subs, f) ==
  LET t == f.descriptortype
      tag(wire_type) == <<OpTag(f.number, wire_type)>>
  IN  CASE t = "DOUBLE" -> <<OpBytes(encode_fixed(val))>> \o tag(UPB_WIRE_TYPE_64BIT)
        [] t = "FLOAT" -> <<OpBytes(encode_fixed(val))>> \o tag(UPB_WIRE_TYPE_32BIT)
        [] t \in {"INT64", "UINT64"} -> <<OpVarint(val)>> \o tag(UPB_WIRE_TYPE_VARINT)
        [] t = "UINT32" -> <<OpVarint(ZeroExt(val, 64))>> \o tag(UPB_WIRE_TYPE_VARINT)
        [] t \in {"INT32", "ENUM"} -> <<OpVarint(SignExtend32(val))>> \o tag(UPB_WIRE_TYPE_VARINT)
        [] t \in {"SFIXED64", "FIXED64"} ->
             <<OpBytes(encode_fixed(val))>> \o tag(UPB_WIRE_TYPE_64BIT)
        [] t \in {"FIXED32", "SFIXED32"} ->
             <<OpBytes(encode_fixed(val))>> \o tag(UPB_WIRE_TYPE_32BIT)
        [] t = "BOOL" -> <<OpVarint(ZeroExt(val, 64))>> \o tag(UPB_WIRE_TYPE_VARINT)
        [] t = "SINT32" ->
             <<OpVarint(ZeroExt(encode_zz32(val), 64))>> \o tag(UPB_WIRE_TYPE_VARINT)
        [] t = "SINT64" -> <<OpVarint(encode_zz64(val))>> \o tag(UPB_WIRE_TYPE_VARINT)
        [] t \in {"STRING", "BYTES"} ->
             <<OpBytes(val), OpVarint(Bits(Len(val), 64))>> \o tag(UPB_WIRE_TYPE_DELIMITED)
        [] t = "GROUP" ->
             IF val = NULL
             THEN <<OpTag(f.number, UPB_WIRE_TYPE_END_GROUP)>> \o tag(UPB_WIRE_TYPE_START_GROUP)
             ELSE <<OpDepthDec, OpTag(f.number, UPB_WIRE_TYPE_END_GROUP),
                    OpMessage(val, subs[f.submsg_index + 1]), OpDepthInc>>
                  \o tag(UPB_WIRE_TYPE_START_GROUP)
        [] t = "MESSAGE" ->
             IF val = NULL THEN <<OpVarint(Bits(0, 64))>> \o tag(UPB_WIRE_TYPE_DELIMITED)
             ELSE <<OpDepthDec, OpMessage(val, subs[f.submsg_index + 1]), OpVarintSize,
                    OpDepthInc>>
                  \o tag(UPB_WIRE_TYPE_DELIMITED)

\* encode.c lines 246-337
encode_scalar_impl(val, subs, f) ==
  LET t == f.descriptortype
      tag(wire_type) == <<OpTag(f.number, wire_type)>>
  IN  CASE t = "DOUBLE" -> <<OpBytes(encode_fixed(val))>> \o tag(UPB_WIRE_TYPE_64BIT)
        [] t = "FLOAT" -> <<OpBytes(encode_fixed(val))>> \o tag(UPB_WIRE_TYPE_32BIT)
        [] t \in {"INT64", "UINT64"} -> <<OpVarint(val)>> \o tag(UPB_WIRE_TYPE_VARINT)
        [] t = "UINT32" -> <<OpVarint(ZeroExt(val, 64))>> \o tag(UPB_WIRE_TYPE_VARINT)
        [] t \in {"INT32", "ENUM"} -> <<OpVarint(SignExtend32(val))>> \o tag(UPB_WIRE_TYPE_VARINT)
        [] t \in {"SFIXED64", "FIXED64"} ->
             <<OpBytes(encode_fixed(val))>> \o tag(UPB_WIRE_TYPE_64BIT)
        [] t \in {"FIXED32", "SFIXED32"} ->
             <<OpBytes(encode_fixed(val))>> \o tag(UPB_WIRE_TYPE_32BIT)
        [] t = "BOOL" -> <<OpVarint(ZeroExt(val, 64))>> \o tag(UPB_WIRE_TYPE_VARINT)
        [] t = "SINT32" ->
             <<OpVarint(ZeroExt(encode_zz32(val), 64))>> \o tag(UPB_WIRE_TYPE_VARINT)
        [] t = "SINT64" -> <<OpVarint(encode_zz64(val))>> \o tag(UPB_WIRE_TYPE_VARINT)
        [] t \in {"STRING", "BYTES"} ->
             <<OpBytes(val), OpVarint(Bits(Len(val), 64))>> \o tag(UPB_WIRE_TYPE_DELIMITED)
        [] t = "GROUP" ->
             IF val = NULL THEN <<>>
             ELSE <<OpDepthDec, OpTag(f.number, UPB_WIRE_TYPE_END_GROUP),
                    OpMessage(val, subs[f.submsg_index + 1]), OpDepthInc>>
                  \o tag(UPB_WIRE_TYPE_START_GROUP)
        [] t = "MESSAGE" ->
             IF val = NULL THEN <<>>
             ELSE <<OpDepthDec, OpMessage(val, subs[f.submsg_index + 1]), OpVarintSize,
                    OpDepthInc>>
                  \o tag(UPB_WIRE_TYPE_DELIMITED)

\* The element buffer of an array of fixed-width elements, as it lies in memory
upb_array_constptr(arr) == Concat([i \in 1..arr.len |-> HostBytes(arr.data[i])])

\* encode.c lines 204-227
encode_fixedarray_impl(arr, elem_size, tag) ==
  LET bytes == arr.len * elem_size
      data  == upb_array_constptr(arr)
  IN  IF tag # 0
      THEN Concat([k \in 1..arr.len |->
                     LET at == bytes - k * elem_size
                     IN  <<OpBytes(SubSeq(data, at + 1, at + elem_size)),
                           OpVarint(Bits(tag, 64))>>])
      ELSE <<OpBytes(data)>>

\* encode.c lines 347-466; pre_len is e.ctx->limit - e.ptr on entry
encode_array_impl(msg, subs, f, pre_len) ==
  LET arr    == Mem(msg, f.offset)
      packed == f.packed
      t      == f.descriptortype
      TAG(wire_type) == IF packed THEN 0 ELSE f.number * 8 + wire_type
      \* the elements from the last to the first
      elem(k) == arr.data[arr.len + 1 - k]
      VARINT_CASE(encode(_)) ==
        LET tag == TAG(UPB_WIRE_TYPE_VARINT)
        IN  Concat([k \in 1..arr.len |->
                      <<OpVarint(encode(elem(k)))>>
                      \o (IF tag # 0 THEN <<OpVarint(Bits(tag, 64))>> ELSE <<>>)])
      U64(v) == v
      U32(v) == ZeroExt(v, 64)
      S32(v) == SignExtend32(v)
      ZZ32(v) == ZeroExt(encode_zz32(v), 64)
      ZZ64(v) == encode_zz64(v)
      trailer == IF packed
                 THEN <<OpVarintLen(pre_len), OpTag(f.number, UPB_WIRE_TYPE_DELIMITED)>>
                 ELSE <<>>
  IN  IF arr.null \/ arr.len = 0 THEN <<>>
      ELSE
      CASE t = "DOUBLE" -> encode_fixedarray_impl(arr, 8, TAG(UPB_WIRE_TYPE_64BIT)) \o trailer
        [] t = "FLOAT" -> encode_fixedarray_impl(arr, 4, TAG(UPB_WIRE_TYPE_32BIT)) \o trailer
        [] t \in {"SFIXED64", "FIXED64"} ->
             encode_fixedarray_impl(arr, 8, TAG(UPB_WIRE_TYPE_64BIT)) \o trailer
        [] t \in {"FIXED32", "SFIXED32"} ->
             encode_fixedarray_impl(arr, 4, TAG(UPB_WIRE_TYPE_32BIT)) \o trailer
        [] t \in {"INT64", "UINT64"} -> VARINT_CASE(U64) \o trailer
        [] t = "UINT32" -> VARINT_CASE(U32) \o trailer
        [] t \in {"INT32", "ENUM"} -> VARINT_CASE(S32) \o trailer
        [] t = "BOOL" -> VARINT_CASE(U32) \o trailer
        [] t = "SINT32" -> VARINT_CASE(ZZ32) \o trailer
        [] t = "SINT64" -> VARINT_CASE(ZZ64) \o trailer
        [] t \in {"STRING", "BYTES"} ->
             Concat([k \in 1..arr.len |->
                       <<OpBytes(elem(k)), OpVarint(Bits(Len(elem(k)), 64)),
                         OpTag(f.number, UPB_WIRE_TYPE_DELIMITED)>>])
        [] t = "GROUP" ->
             <<OpDepthDec>>
             \o Concat([k \in 1..arr.len |->
                          <<OpTag(f.number, UPB_WIRE_TYPE_END_GROUP),
                            OpMessage(elem(k), subs[f.submsg_index + 1]),
                            OpTag(f.number, UPB_WIRE_TYPE_START_GROUP)>>])
             \o <<OpDepthInc>>
        [] t = "MESSAGE" ->
             <<OpDepthDec>>
             \o Concat([k \in 1..arr.len |->
                          <<OpMessage(elem(k), subs[f.submsg_index + 1]), OpVarintSize,
                            OpTag(f.number, UPB_WIRE_TYPE_DELIMITED)>>])
             \o <<OpDepthInc>>

\* A map entry emitter that writes the key before the value
encode_mapentry_impl_keyfirst(number, layout, ent, pre_len) ==
  LET key_field == Layout(layout).fields[1]
      val_field == Layout(layout).fields[2]
  IN  encode_scalar_impl(ent.k, Layout(layout).subs, key_field)
      \o encode_scalar_impl(ent.v, Layout(layout).subs, val_field)
      \o <<OpVarintLen(pre_len), OpTag(number, UPB_WIRE_TYPE_DELIMITED)>>

\* encode.c lines 476-490; pre_len is e.ctx->limit - e.ptr on entry
encode_mapentry_impl(number, layout, ent, pre_len) ==
  LET key_field == Layout(layout).fields[1]
      val_field == Layout(layout).fields[2]
  IN  encode_scalar_impl(ent.v, Layout(layout).subs, val_field)
      \o encode_scalar_impl(ent.k, Layout(layout).subs, key_field)
      \o <<OpVarintLen(pre_len), OpTag(number, UPB_WIRE_TYPE_DELIMITED)>>

-----------------------------------------------------------------------------
(* The map sorter (upb/msg.c, as the spec describes it): a sorted view of  *)
(* a map is pushed on the sorter's entry array and popped after use.       *)

RECURSIVE UnsignedLess(_, _)
\* a < b for bit vectors of the same width
UnsignedLess(a, b) ==
  IF a = <<>> THEN FALSE
  ELSE LET n == Len(a)
       IN  IF a[n] # b[n] THEN a[n] < b[n]
           ELSE UnsignedLess(SubSeq(a, 1, n - 1), SubSeq(b, 1, n - 1))

SignedLess(a, b) ==
  IF a[Len(a)] # b[Len(b)] THEN a[Len(a)] = 1 ELSE UnsignedLess(a, b)

RECURSIVE BytesLess(_, _)
\* lexicographic order of byte strings
BytesLess(a, b) ==
  IF b = <<>> THEN FALSE
  ELSE IF a = <<>> THEN TRUE
  ELSE IF a[1] # b[1] THEN a[1] < b[1]
  ELSE BytesLess(Tail(a), Tail(b))

KeyLess(key_type, a, b) ==
  CASE key_type \in {"STRING", "BYTES"} -> BytesLess(a, b)
    [] key_type \in {"INT32", "INT64", "SINT32", "SINT64", "SFIXED32", "SFIXED64", "ENUM"} ->
         SignedLess(a, b)
    [] OTHER -> UnsignedLess(a, b)

RECURSIVE SortAscending(_, _)
SortAscending(key_type, entries) ==
  IF entries = <<>> THEN <<>>
  ELSE LET i == CHOOSE i \in 1..Len(entries) :
                  \A j \in 1..Len(entries) : ~KeyLess(key_type, entries[j].k, entries[i].k)
       IN  <<entries[i]>>
           \o SortAscending(key_type,
                            SubSeq(entries, 1, i - 1) \o SubSeq(entries, i + 1, Len(entries)))

\* _upb_mapsorter_pushmap: the entries of the map, sorted by key, appended to
\* the sorter's entry array
upb_mapsorter_pushmap(s, key_type, map) ==
  [s EXCEPT !.entries = @ \o SortAscending(key_type, map.entries)]

\* _upb_sortedmap_next: the order in which the sorted view [start, end) is
\* handed out, from the last entry to the first
upb_sortedmap_next(s, start, end) == Reverse(SubSeq(s.entries, start + 1, end))

\* _upb_mapsorter_popmap
upb_mapsorter_popmap(s, start) == [s EXCEPT !.entries = SubSeq(@, 1, start)]

upb_mapsorter_init(s) == [s EXCEPT !.entries = <<>>, !.inits = @ + 1]

upb_mapsorter_destroy(s) == [s EXCEPT !.entries = <<>>, !.destroys = @ + 1]

-----------------------------------------------------------------------------
(* Map, field and message emitters *)

HasOption(opts, bit) == (opts \div bit) % 2 = 1

\* The map emitter that walks the table whatever the options say
encode_map_impl_tableorder(msg, subs, f, s, opts) ==
  LET map    == Mem(msg, f.offset)
      layout == subs[f.submsg_index + 1]
  IN  IF map.null THEN <<>>
      ELSE [i \in 1..Len(map.entries) |-> OpMapEntry(f.number, layout, map.entries[i])]

\* encode.c lines 500-538, the entries in the order encode_mapentry is called
\* for them; s is the sorter after the push
encode_map_impl(msg, subs, f, s, opts) ==
  LET map    == Mem(msg, f.offset)
      layout == subs[f.submsg_index + 1]
  IN  IF map.null THEN <<>>
      ELSE IF HasOption(opts, UPB_ENCODE_DETERMINISTIC)
      THEN LET end   == Len(s.entries)
               start == end - Len(map.entries)
               order == upb_sortedmap_next(s, start, end)
           IN  [i \in 1..Len(order) |-> OpMapEntry(f.number, layout, order[i])]
               \o <<OpPopMap(start)>>
      ELSE [i \in 1..Len(map.entries) |-> OpMapEntry(f.number, layout, map.entries[i])]

\* The sorter after encode_map_impl's push (line 514), if it pushes
MapPush(msg, subs, f, s, opts) ==
  LET map == Mem(msg, f.offset)
  IN  IF ~map.null /\ HasOption(opts, UPB_ENCODE_DETERMINISTIC)
      THEN upb_mapsorter_pushmap(s, Layout(subs[f.submsg_index + 1]).fields[1].descriptortype,
                                 map)
      ELSE s

\* A policy that asks for a value that is not the default whatever the
\* presence code, and for the hasbit or the oneof case on top
encode_shouldencode_nondefault(msg, subs, f) ==
  LET mem == Mem(msg, f.offset)
      nondefault ==
        CASE f.rep \in {"1BYTE", "4BYTE", "8BYTE"} -> NonZero(mem)
          [] f.rep = "PTR" -> IF f.mode = "SCALAR" THEN mem # NULL ELSE ~mem.null
          [] f.rep = "STRVIEW" -> Len(mem) # 0
  IN  IF f.presence = 0 THEN nondefault
      ELSE IF f.presence > 0 THEN upb_hasbit_field(msg, f) /\ nondefault
      ELSE upb_getoneofcase_field(msg, f) = f.number /\ nondefault

\* encode.c lines 548-595
encode_shouldencode(msg, subs, f) ==
  IF f.presence = 0
  THEN LET mem == Mem(msg, f.offset)
       IN  CASE f.rep \in {"1BYTE", "4BYTE", "8BYTE"} -> NonZero(mem)
             [] f.rep = "PTR" ->
                  \* _UPB_REP_PTR is _UPB_REP_8BYTE (or _4BYTE): a non-null pointer
                  IF f.mode = "SCALAR" THEN mem # NULL ELSE ~mem.null
             [] f.rep = "STRVIEW" -> Len(mem) # 0
  ELSE IF f.presence > 0
  THEN upb_hasbit_field(msg, f)
  ELSE upb_getoneofcase_field(msg, f) = f.number

\* A dispatch that has a packed array without elements written as a tag and
\* a length of zero
encode_field_impl_emptypacked(msg, subs, field, pre_len, s, opts) ==
  CASE field.mode = "ARRAY" ->
         IF field.packed /\ ~Mem(msg, field.offset).null /\ Mem(msg, field.offset).len = 0
         THEN <<OpVarintLen(pre_len), OpTag(field.number, UPB_WIRE_TYPE_DELIMITED)>>
         ELSE encode_array_impl(msg, subs, field, pre_len)
    [] field.mode = "MAP" -> encode_map_impl(msg, subs, field, s, opts)
    [] field.mode = "SCALAR" -> encode_scalar_impl(Mem(msg, field.offset), subs, field)

\* encode.c lines 597-616
encode_field_impl(msg, subs, field, pre_len, s, opts) ==
  CASE field.mode = "ARRAY" -> encode_array_impl(msg, subs, field, pre_len)
    [] field.mode = "MAP" -> encode_map_impl(msg, subs, field, s, opts)
    [] field.mode = "SCALAR" -> encode_scalar_impl(Mem(msg, field.offset), subs, field)

\* An item whose type_id is written before its message and so follows it in
\* the output
encode_msgset_item_idlast(ext) ==
  <<OpTag(1, UPB_WIRE_TYPE_END_GROUP),
    OpVarint(Bits(ext.ext.field.number, 64)),
    OpTag(2, UPB_WIRE_TYPE_VARINT),
    OpMessage(ext.data, ext.ext.sub),
    OpVarintSize,
    OpTag(3, UPB_WIRE_TYPE_DELIMITED),
    OpTag(1, UPB_WIRE_TYPE_START_GROUP)>>

\* encode.c lines 632-643
encode_msgset_item(ext) ==
  <<OpTag(1, UPB_WIRE_TYPE_END_GROUP),
    OpMessage(ext.data, ext.ext.sub),
    OpVarintSize,
    OpTag(3, UPB_WIRE_TYPE_DELIMITED),
    OpVarint(Bits(ext.ext.field.number, 64)),
    OpTag(2, UPB_WIRE_TYPE_VARINT),
    OpTag(1, UPB_WIRE_TYPE_START_GROUP)>>

\* The unknown fields written whatever the options say
EncodeUnknownAlways(msg, opts) ==
  IF ~heap[msg].unknown.null THEN <<OpBytes(heap[msg].unknown.data)>> ELSE <<>>

\* upb_msg_getunknown and lines 650-659: the bytes handed to encode_bytes
EncodeUnknown(msg, opts) ==
  IF ~HasOption(opts, UPB_ENCODE_SKIPUNKNOWN) /\ ~heap[msg].unknown.null
  THEN <<OpBytes(heap[msg].unknown.data)>>
  ELSE <<>>

\* A walk of the extensions from the last one stored down to the first
EncodeExtensionsDownward(msg, m) ==
  IF Layout(m).ext # "NONE"
  THEN Concat([k \in 1..Len(heap[msg].exts) |->
                 LET i == Len(heap[msg].exts) + 1 - k
                     ext == heap[msg].exts[i]
                 IN  IF Layout(m).ext = "MSGSET"
                     THEN encode_msgset_item(ext)
                     ELSE <<OpField(<<"ext", msg, i>>, <<ext.ext.sub>>, ext.ext.field, FALSE)>>])
  ELSE <<>>

\* encode.c lines 661-683
EncodeExtensions(msg, m) ==
  IF Layout(m).ext # "NONE"
  THEN Concat([i \in 1..Len(heap[msg].exts) |->
                 LET ext == heap[msg].exts[i]
                 IN  IF Layout(m).ext = "MSGSET"
                     THEN encode_msgset_item(ext)
                     ELSE <<OpField(<<"ext", msg, i>>, <<ext.ext.sub>>, ext.ext.field, FALSE)>>])
  ELSE <<>>

\* The walk from fields[0] up to fields[field_count - 1]
EncodeFieldsUpward(msg, m) ==
  [k \in 1..Len(Layout(m).fields) |-> OpField(msg, Layout(m).subs, Layout(m).fields[k], TRUE)]

\* encode.c lines 685-694: the walk from fields[field_count - 1] down to fields[0]
EncodeFields(msg, m) ==
  LET n == Len(Layout(m).fields)
  IN  [k \in 1..n |-> OpField(msg, Layout(m).subs, Layout(m).fields[n + 1 - k], TRUE)]

\* The emitter with the unknown fields written last, which puts them in front
encode_message_impl_unknownlast(msg, m, pre_len, opts) ==
  EncodeExtensions(msg, m) \o EncodeFields(msg, m) \o EncodeUnknown(msg, opts)
  \o <<OpMsgEnd(msg, m, pre_len)>>

\* encode.c lines 645-698; pre_len is e.ctx->limit - e.ptr on entry
encode_message_impl(msg, m, pre_len, opts) ==
  EncodeUnknown(msg, opts) \o EncodeExtensions(msg, m) \o EncodeFields(msg, m)
  \o <<OpMsgEnd(msg, m, pre_len)>>

-----------------------------------------------------------------------------
(* upb_encode_ex as a state machine *)

\* The option bitmasks handed to upb_encode_ex
\* (an int: with the top bit of the depth override set it is negative)
OptionSet ==
  {det * UPB_ENCODE_DETERMINISTIC + skip * UPB_ENCODE_SKIPUNKNOWN + d * DepthShift :
     det \in {0, 1}, skip \in {0, 1}, d \in 0..MaxDepthOpt}
  \cup {MinInt32 + det * UPB_ENCODE_DETERMINISTIC + skip * UPB_ENCODE_SKIPUNKNOWN :
          det \in {0, 1}, skip \in {0, 1}}

Init ==
  /\ pc = "start"
  /\ big_endian \in BOOLEAN
  /\ root \in Roots
  /\ heap = [id \in Reachable(root) |-> MsgAt(id)]
  /\ options \in OptionSet
  \* a message that holds itself is encoded under the budgets up to 64 only:
  \* every unit of budget is a level of recursion
  /\ root[1] = "Ncyc" => options >= 0
  /\ buf = <<>>
  /\ ptr = 0
  /\ depth = 0
  /\ sorter = [entries |-> <<>>, inits |-> 0, destroys |-> 0]
  /\ stack = <<>>
  /\ size = Garbage
  /\ ret = "unset"
  /\ status = "running"
  /\ allocs = 0
  /\ run = 1
  /\ prev = <<>>

\* The budget taken from the whole bitmask, without the shift
DepthBudgetUnshifted(opts) == IF opts # 0 THEN opts ELSE 64

\* The depth budget: encode.c lines 704 and 709.  (unsigned)options >> 16 of a
\* 32-bit int: the floor of options / 2^16, plus 2^16 when options is negative
DepthBudget(opts) ==
  LET d == (opts \div DepthShift) + (IF opts < 0 THEN DepthShift ELSE 0)
  IN  IF d # 0 THEN d ELSE 64

\* encode.c lines 703-722: the context is set up and encode_message is called
Start ==
  /\ pc = "start"
  /\ pc' = "encoding"
  /\ buf' = <<>>
  /\ ptr' = 0
  /\ depth' = DepthBudget(options)
  /\ sorter' = upb_mapsorter_init(sorter)
  /\ ret' = "null"
  /\ stack' = <<OpMessage(root, RootLayout(root))>>
  /\ UNCHANGED <<big_endian, heap, root, options, size, status, allocs, run, prev>>

Top == Head(stack)
Running(op) == pc = "encoding" /\ stack # <<>> /\ Top.op = op
PreLen == Len(buf) - ptr

\* A failure that leaves upb_encode_ex from where it is raised
ThrowPastCleanup(why) ==
  /\ pc' = "done"
  /\ status' = why

\* encode_err: the longjmp back to upb_encode_ex
Throw(why) ==
  /\ pc' = "failed"
  /\ status' = why

\* The activations of encode_message_impl: each has its return pending
Activations == Cardinality({i \in 1..Len(stack) : stack[i].op = "msg_end"})

EncodeMessage ==
  /\ Running("message")
  /\ Activations < StackLimit
  /\ stack' = encode_message_impl(Top.msg, Top.m, PreLen, options) \o Tail(stack)
  /\ UNCHANGED <<pc, big_endian, heap, root, options, buf, ptr, depth, sorter, size, ret,
                 status, allocs, run, prev>>

\* The recursion of encode_message_impl (through encode_field, encode_scalar,
\* encode_array, encode_mapentry or encode_msgset_item) has used up the C stack
StackOverflow ==
  /\ Running("message")
  /\ Activations >= StackLimit
  /\ pc' = "overflow"
  /\ status' = "overflow"
  /\ UNCHANGED <<big_endian, heap, root, options, buf, ptr, depth, sorter, stack, size, ret,
                 allocs, run, prev>>

\* A size measured from the base of the allocation and not from the cursor
EndMessageFromBase ==
  /\ Running("msg_end")
  /\ size' = Len(buf) - Top.pre_len
  /\ stack' = Tail(stack)
  /\ UNCHANGED <<pc, big_endian, heap, root, options, buf, ptr, depth, sorter, ret, status,
                 allocs, run, prev>>

\* encode.c line 696
EndMessage ==
  /\ Running("msg_end")
  /\ size' = PreLen - Top.pre_len
  /\ stack' = Tail(stack)
  /\ UNCHANGED <<pc, big_endian, heap, root, options, buf, ptr, depth, sorter, ret, status,
                 allocs, run, prev>>

\* The presence policy asked for extensions as for declared fields
EncodeFieldChecked ==
  /\ Running("field")
  /\ IF ~encode_shouldencode(Top.msg, Top.subs, Top.f)
     THEN /\ stack' = Tail(stack)
          /\ sorter' = sorter
     ELSE /\ sorter' = IF Top.f.mode = "MAP"
                       THEN MapPush(Top.msg, Top.subs, Top.f, sorter, options)
                       ELSE sorter
          /\ stack' = encode_field_impl(Top.msg, Top.subs, Top.f, PreLen, sorter', options)
                      \o Tail(stack)
  /\ UNCHANGED <<pc, big_endian, heap, root, options, buf, ptr, depth, size, ret, status,
                 allocs, run, prev>>

\* encode.c lines 690-693 for a declared field, line 679 for an extension
EncodeField ==
  /\ Running("field")
  /\ IF Top.check /\ ~encode_shouldencode(Top.msg, Top.subs, Top.f)
     THEN /\ stack' = Tail(stack)
          /\ sorter' = sorter
     ELSE /\ sorter' = IF Top.f.mode = "MAP"
                       THEN MapPush(Top.msg, Top.subs, Top.f, sorter, options)
                       ELSE sorter
          /\ stack' = encode_field_impl(Top.msg, Top.subs, Top.f, PreLen, sorter', options)
                      \o Tail(stack)
  /\ UNCHANGED <<pc, big_endian, heap, root, options, buf, ptr, depth, size, ret, status,
                 allocs, run, prev>>

EncodeMapEntry ==
  /\ Running("mapentry")
  /\ stack' = encode_mapentry_impl(Top.number, Top.layout, Top.ent, PreLen) \o Tail(stack)
  /\ UNCHANGED <<pc, big_endian, heap, root, options, buf, ptr, depth, sorter, size, ret,
                 status, allocs, run, prev>>

\* encode.c line 521
PopMap ==
  /\ Running("popmap")
  /\ sorter' = upb_mapsorter_popmap(sorter, Top.start)
  /\ stack' = Tail(stack)
  /\ UNCHANGED <<pc, big_endian, heap, root, options, buf, ptr, depth, size, ret, status,
                 allocs, run, prev>>

\* The outcome r of a write on the buffer: the new cursor, or the longjmp
Wrote(r) ==
  /\ allocs' = IF ~r.ok \/ Len(r.buf) # Len(buf) THEN allocs + 1 ELSE allocs
  /\ IF r.ok
     THEN /\ buf' = r.buf
          /\ ptr' = r.ptr
          /\ stack' = Tail(stack)
          /\ UNCHANGED <<pc, status>>
     ELSE /\ Throw("oom")
          /\ UNCHANGED <<buf, ptr, stack>>
  /\ UNCHANGED <<big_endian, heap, root, options, depth, sorter, size, ret, run, prev>>

EmitBytes ==
  /\ Running("bytes")
  /\ \E malloc_ok \in BOOLEAN :
       Wrote(encode_bytes([buf |-> buf, ptr |-> ptr, ok |-> TRUE], Top.data, malloc_ok))

\* The value a pending encode_varint call is made with
VarintArg(t) ==
  CASE t.op = "varint" -> t.val
    [] t.op = "varint_size" -> Bits(size, 64)
    [] t.op = "varint_len" -> Bits(PreLen - t.pre_len, 64)

EmitVarint ==
  /\ pc = "encoding" /\ stack # <<>> /\ Top.op \in {"varint", "varint_size", "varint_len"}
  /\ \E malloc_ok \in BOOLEAN :
       Wrote(encode_varint([buf |-> buf, ptr |-> ptr, ok |-> TRUE], VarintArg(Top), malloc_ok))

\* if (--e.ctx->depth == 0) encode_err(&e);
DepthDec ==
  /\ Running("depth_dec")
  /\ depth' = depth - 1
  /\ IF depth' = 0
     THEN Throw("maxdepth") /\ stack' = stack
     ELSE stack' = Tail(stack) /\ UNCHANGED <<pc, status>>
  /\ UNCHANGED <<big_endian, heap, root, options, buf, ptr, sorter, size, ret, allocs, run, prev>>

\* An emitter that returns without giving the level back
DepthIncForgotten ==
  /\ Running("depth_inc")
  /\ depth' = depth
  /\ stack' = Tail(stack)
  /\ UNCHANGED <<pc, big_endian, heap, root, options, buf, ptr, sorter, size, ret, status,
                 allocs, run, prev>>

\* e.ctx->depth++;
DepthInc ==
  /\ Running("depth_inc")
  /\ depth' = depth + 1
  /\ stack' = Tail(stack)
  /\ UNCHANGED <<pc, big_endian, heap, root, options, buf, ptr, sorter, size, ret, status,
                 allocs, run, prev>>

\* The return of e.ptr as it is, which is NULL when nothing was allocated
FinishWithoutPlaceholder ==
  /\ pc = "encoding" /\ stack = <<>>
  /\ size' = Len(buf) - ptr
  /\ ret' = IF Len(buf) = 0 THEN "null" ELSE "ptr"
  /\ sorter' = upb_mapsorter_destroy(sorter)
  /\ status' = "ok"
  /\ pc' = "done"
  /\ UNCHANGED <<big_endian, heap, root, options, buf, ptr, depth, stack, allocs, run, prev>>

\* encode.c lines 723-737: encode_message has returned
Finish ==
  /\ pc = "encoding" /\ stack = <<>>
  /\ size' = Len(buf) - ptr
  /\ ret' = IF size' = 0 THEN "ch" ELSE "ptr"
  /\ sorter' = upb_mapsorter_destroy(sorter)
  /\ status' = "ok"
  /\ pc' = "done"
  /\ UNCHANGED <<big_endian, heap, root, options, buf, ptr, depth, stack, allocs, run, prev>>

\* A failure that hands back what was written before it
RecoverPartial ==
  /\ pc = "failed"
  /\ size' = Len(buf) - ptr
  /\ ret' = IF size' = 0 THEN "null" ELSE "ptr"
  /\ sorter' = upb_mapsorter_destroy(sorter)
  /\ pc' = "done"
  /\ UNCHANGED <<big_endian, heap, root, options, buf, ptr, depth, stack, status, allocs, run,
                 prev>>

\* encode.c lines 715-719 and 736-737: UPB_SETJMP returns non-zero
Recover ==
  /\ pc = "failed"
  /\ size' = 0
  /\ ret' = "null"
  /\ sorter' = upb_mapsorter_destroy(sorter)
  /\ pc' = "done"
  /\ UNCHANGED <<big_endian, heap, root, options, buf, ptr, depth, stack, status, allocs, run,
                 prev>>

Next ==
  \/ Start
  \/ EncodeMessage
  \/ StackOverflow
  \/ EndMessage
  \/ EncodeField
  \/ EncodeMapEntry
  \/ PopMap
  \/ EmitBytes
  \/ EmitVarint
  \/ DepthDec
  \/ DepthInc
  \/ Finish
  \/ Recover

Spec == Init /\ [][Next]_vars

\* The bytes upb_encode_ex hands back: size bytes at ret
Output == IF ret = "ptr" THEN SubSeq(buf, ptr + 1, ptr + size) ELSE <<>>

-----------------------------------------------------------------------------
(* Reading the wire format (spec 6.2), to state what the output holds.     *)
(* A record is [number, wt, val, sub, start, end, hdr]: val is the 64-bit  *)
(* value of a varint record and the payload bytes of any other, sub the    *)
(* records of a group, start..end the record's bytes and hdr the length of *)
(* its tag and length prefix.                                              *)

RECURSIVE VarintEnd(_, _, _)
\* The position of the last byte of the varint that starts at pos; 0 if there
\* is none within n bytes
VarintEnd(b, pos, n) ==
  IF n = 0 \/ pos > Len(b) \/ b[pos] < 0 THEN 0
  ELSE IF b[pos] < 128 THEN pos
  ELSE VarintEnd(b, pos + 1, n - 1)

\* The 64-bit value of the varint at pos..end
VarintBits(b, pos, end) ==
  LET raw == Concat([i \in 1..(end - pos + 1) |-> Bits(b[pos + i - 1] % 128, 7)])
  IN  IF Len(raw) >= 64 THEN SubSeq(raw, 1, 64) ELSE ZeroExt(raw, 64)

\* A length small enough to be a number of the model
SmallLen(bits) == IF \E i \in 21..64 : bits[i] = 1 THEN -1 ELSE BitsToNat(SubSeq(bits, 1, 20))

BadParse == [ok |-> FALSE, recs |-> <<>>, pos |-> 0, bodyend |-> 0]

RECURSIVE ParseSeq(_, _, _)
\* The records from pos up to the end of b (group = 0) or up to the END_GROUP
\* tag of the enclosing group
ParseSeq(b, pos, group) ==
  IF pos > Len(b) THEN [ok |-> group = 0, recs |-> <<>>, pos |-> pos, bodyend |-> pos - 1]
  ELSE
  LET te == VarintEnd(b, pos, UPB_PB_VARINT_MAX_LEN)
      tag == VarintBits(b, pos, te)
      wt == BitsToNat(SubSeq(tag, 1, 3))
      number == BitsToNat(SubSeq(tag, 4, 30))
      Rec(val, sub, end, hdr) ==
        [number |-> number, wt |-> wt, val |-> val, sub |-> sub, start |-> pos,
         end |-> end, hdr |-> hdr]
      Then(rec) ==
        LET rest == ParseSeq(b, rec.end + 1, group)
        IN  [rest EXCEPT !.recs = <<rec>> \o @]
  IN  IF te = 0 \/ number = 0 THEN BadParse
      ELSE
      CASE wt = UPB_WIRE_TYPE_VARINT ->
             LET ve == VarintEnd(b, te + 1, UPB_PB_VARINT_MAX_LEN)
             IN  IF ve = 0 THEN BadParse
                 ELSE Then(Rec(VarintBits(b, te + 1, ve), <<>>, ve, te - pos + 1))
        [] wt = UPB_WIRE_TYPE_64BIT ->
             IF te + 8 > Len(b) THEN BadParse
             ELSE Then(Rec(SubSeq(b, te + 1, te + 8), <<>>, te + 8, te - pos + 1))
        [] wt = UPB_WIRE_TYPE_32BIT ->
             IF te + 4 > Len(b) THEN BadParse
             ELSE Then(Rec(SubSeq(b, te + 1, te + 4), <<>>, te + 4, te - pos + 1))
        [] wt = UPB_WIRE_TYPE_DELIMITED ->
             LET le == VarintEnd(b, te + 1, UPB_PB_VARINT_MAX_LEN)
                 n  == SmallLen(VarintBits(b, te + 1, le))
             IN  IF le = 0 THEN BadParse
                 ELSE IF n < 0 \/ le + n > Len(b) THEN BadParse
                 ELSE Then(Rec(SubSeq(b, le + 1, le + n), <<>>, le + n, le - pos + 1))
        [] wt = UPB_WIRE_TYPE_START_GROUP ->
             LET inner == ParseSeq(b, te + 1, number)
             IN  IF ~inner.ok THEN BadParse
                 ELSE Then(Rec(SubSeq(b, te + 1, inner.bodyend), inner.recs, inner.pos - 1,
                               te - pos + 1))
        [] wt = UPB_WIRE_TYPE_END_GROUP ->
             IF group = number
             THEN [ok |-> TRUE, recs |-> <<>>, pos |-> te + 1, bodyend |-> pos - 1]
             ELSE BadParse
        [] OTHER -> BadParse

Parse(b) == ParseSeq(b, 1, 0)

\* The bytes of a record within the bytes it was parsed from
Raw(b, rec) == SubSeq(b, rec.start, rec.end)

\* The subsequence of the elements that satisfy Test
RECURSIVE SelectRecs(_, _)
SelectRecs(recs, numbers) ==
  IF recs = <<>> THEN <<>>
  ELSE (IF Head(recs).number \in numbers THEN <<Head(recs)>> ELSE <<>>)
       \o SelectRecs(Tail(recs), numbers)

RECURSIVE SplitVarints(_, _)
\* A packed payload as a sequence of varints [val, len]; <<[val |-> <<>>, len |-> 0]>>
\* marks a payload that is none
SplitVarints(b, pos) ==
  IF pos > Len(b) THEN <<>>
  ELSE LET ve == VarintEnd(b, pos, UPB_PB_VARINT_MAX_LEN)
       IN  IF ve = 0 THEN <<[val |-> <<>>, len |-> 0]>>
           ELSE <<[val |-> VarintBits(b, pos, ve), len |-> ve - pos + 1]>>
                \o SplitVarints(b, ve + 1)

\* A packed payload as chunks of w bytes
SplitFixed(b, w) == [i \in 1..(Len(b) \div w) |-> SubSeq(b, w * (i - 1) + 1, w * i)]

-----------------------------------------------------------------------------
(* The bytes of the message whose emitter is about to return *)

AtMsgEnd == Running("msg_end")

\* What encode_message_impl has written for its message: the region between
\* the cursor and the pre_len bytes that were there on entry
Segment == SubSeq(buf, ptr + 1, Len(buf) - Top.pre_len)

DeclaredNumbers(m) == {f.number : f \in FieldsOf(m)}

\* The field numbers the extensions of a message take on the wire (a
\* MessageSet item is a group of field 1)
ExtNumbers(msg, m) ==
  IF Layout(m).ext = "MSGSET" THEN {1}
  ELSE IF Layout(m).ext = "NONE" THEN {}
  ELSE {heap[msg].exts[i].ext.field.number : i \in 1..Len(heap[msg].exts)}

SortedByNumber(fields) ==
  \A i, j \in 1..Len(fields) : i < j => fields[i].number < fields[j].number

\* Decoding a varint of the wire into the memory representation of a field
ZigZagDecode(n) == Xor(Tail(n) \o <<0>>, [i \in 1..Len(n) |-> n[1]])

DecodeVarintAs(type, bits) ==
  CASE type \in {"INT32", "ENUM", "UINT32"} -> SubSeq(bits, 1, 32)
    [] type \in {"INT64", "UINT64"} -> bits
    [] type = "BOOL" -> I8(IF NonZero(bits) THEN 1 ELSE 0)
    [] type = "SINT32" -> ZigZagDecode(SubSeq(bits, 1, 32))
    [] type = "SINT64" -> ZigZagDecode(bits)

VarintTypes == {"INT32", "ENUM", "UINT32", "INT64", "UINT64", "BOOL", "SINT32", "SINT64"}
Fixed32Types == {"FIXED32", "SFIXED32", "FLOAT"}
Fixed64Types == {"FIXED64", "SFIXED64", "DOUBLE"}

\* The records of the message at AtMsgEnd
SegRecs == Parse(Segment)
DeclaredRecs == SelectRecs(SegRecs.recs, DeclaredNumbers(Top.m))
KnownNumbers == DeclaredNumbers(Top.m) \cup ExtNumbers(Top.msg, Top.m)

-----------------------------------------------------------------------------
(* C5: for a layout whose field array is sorted by ascending field number, *)
(* the declared fields of every encoded message appear in its output in    *)
(* ascending field-number order.                                           *)
C5_AscendingFieldOrder ==
  AtMsgEnd /\ SortedByNumber(Layout(Top.m).fields) =>
    /\ SegRecs.ok
    /\ \A i \in 1..(Len(DeclaredRecs) - 1) :
         DeclaredRecs[i].number <= DeclaredRecs[i + 1].number

\* A message with three or more different declared fields written
C5_Witness ==
  /\ AtMsgEnd /\ SortedByNumber(Layout(Top.m).fields)
  /\ Cardinality({DeclaredRecs[i].number : i \in 1..Len(DeclaredRecs)}) >= 3

(* C7: with SKIP_UNKNOWN clear, the unknown-fields blob of a message is in *)
(* that message's output exactly once, byte for byte, as the last bytes of *)
(* its region, after all its declared fields and extensions.               *)
C7_UnknownAtTail ==
  AtMsgEnd /\ ~HasOption(options, UPB_ENCODE_SKIPUNKNOWN) /\ ~heap[Top.msg].unknown.null =>
    LET blob == heap[Top.msg].unknown.data
        tail == Len(Segment) - Len(blob)
    IN  /\ SegRecs.ok
        /\ tail >= 0
        /\ SubSeq(Segment, tail + 1, Len(Segment)) = blob
        /\ \A i \in 1..Len(SegRecs.recs) :
             SegRecs.recs[i].start <= tail => SegRecs.recs[i].number \in KnownNumbers

\* A message with declared fields or extensions in front of a blob that is
\* not empty
C7_Witness ==
  /\ AtMsgEnd /\ ~HasOption(options, UPB_ENCODE_SKIPUNKNOWN)
  /\ ~heap[Top.msg].unknown.null
  /\ Len(heap[Top.msg].unknown.data) > 0
  /\ Len(Segment) > Len(heap[Top.msg].unknown.data)
  /\ heap[Top.msg].exts # <<>>

(* C8: with SKIP_UNKNOWN set, no unknown-field bytes are written, for the  *)
(* top-level message or for any nested message, group, map value or        *)
(* extension payload.                                                      *)
C8_SkipUnknown ==
  AtMsgEnd /\ HasOption(options, UPB_ENCODE_SKIPUNKNOWN) =>
    /\ SegRecs.ok
    /\ \A i \in 1..Len(SegRecs.recs) : SegRecs.recs[i].number \in KnownNumbers

\* A nested message that holds unknown fields is done under SKIP_UNKNOWN
C8_Witness ==
  /\ AtMsgEnd /\ HasOption(options, UPB_ENCODE_SKIPUNKNOWN)
  /\ Top.msg # root
  /\ Len(heap[Top.msg].unknown.data) > 0
  /\ Len(Segment) > 0

\* The varints [val, len] written for a field, in output order: one for each
\* varint record and those of the payload of each delimited record
RECURSIVE VarintsOf(_)
VarintsOf(recs) ==
  IF recs = <<>> THEN <<>>
  ELSE LET r == Head(recs)
       IN  (CASE r.wt = UPB_WIRE_TYPE_VARINT ->
                   <<[val |-> r.val, len |-> r.end - r.start + 1 - r.hdr]>>
              [] r.wt = UPB_WIRE_TYPE_DELIMITED -> SplitVarints(r.val, 1)
              [] OTHER -> <<[val |-> <<>>, len |-> 0]>>)
           \o VarintsOf(Tail(recs))

\* The values a field of the message at AtMsgEnd holds, in order
ValuesOf(f) ==
  LET mem == Mem(Top.msg, f.offset)
  IN  CASE f.mode = "ARRAY" -> IF mem.null THEN <<>> ELSE mem.data
        [] f.mode = "SCALAR" ->
             IF encode_shouldencode(Top.msg, Layout(Top.m).subs, f) THEN <<mem>> ELSE <<>>

Negative(v) == v[Len(v)] = 1

(* C9: a negative value of an INT32 or ENUM field, scalar, packed or       *)
(* unpacked repeated, is written as the 10-byte varint of its 64-bit       *)
(* sign-extension.                                                         *)
C9_NegativeInt32TenBytes ==
  AtMsgEnd =>
    \A f \in {g \in FieldsOf(Top.m) :
                g.descriptortype \in {"INT32", "ENUM"} /\ g.mode \in {"SCALAR", "ARRAY"}} :
      LET xs == ValuesOf(f)
          vs == VarintsOf(SelectRecs(SegRecs.recs, {f.number}))
      IN  /\ SegRecs.ok
          /\ Len(vs) = Len(xs)
          /\ \A i \in 1..Len(xs) :
               /\ vs[i].val = xs[i] \o [j \in 1..32 |-> xs[i][32]]
               /\ Negative(xs[i]) => vs[i].len = 10

\* A message with negative elements in both a packed and an unpacked repeated
\* field (the roots <<"Si", i>> and <<"Se", i>> hold the negative scalars)
C9_Witness ==
  /\ AtMsgEnd
  /\ \E f, g \in FieldsOf(Top.m) :
       /\ f.descriptortype \in {"INT32", "ENUM"} /\ f.mode = "ARRAY" /\ f.packed
       /\ g.descriptortype \in {"INT32", "ENUM"} /\ g.mode = "ARRAY" /\ ~g.packed
       /\ \E i \in 1..Len(ValuesOf(f)) : Negative(ValuesOf(f)[i])
       /\ \E i \in 1..Len(ValuesOf(g)) : Negative(ValuesOf(g)[i])

\* The packed fields of numeric type of the message at AtMsgEnd that hold
\* elements
PackedFields ==
  {f \in FieldsOf(Top.m) :
     /\ f.mode = "ARRAY" /\ f.packed
     /\ f.descriptortype \in VarintTypes \cup Fixed32Types \cup Fixed64Types
     /\ ValuesOf(f) # <<>>}

\* The elements of a packed payload, each as its field holds it in memory
PackedElements(type, payload) ==
  IF type \in VarintTypes
  THEN LET vs == SplitVarints(payload, 1)
       IN  [i \in 1..Len(vs) |->
              IF vs[i].len = 0 THEN <<>> ELSE DecodeVarintAs(type, vs[i].val)]
  ELSE SplitFixed(payload, IF type \in Fixed32Types THEN 4 ELSE 8)

\* An element of a repeated field as encode_array_impl hands it out: a varint
\* element is its value, a fixed-width element its bytes in the array
ElementAs(type, x) == IF type \in VarintTypes THEN x ELSE HostBytes(x)

(* C6: a packed repeated field is one length-delimited record whose length *)
(* is the number of bytes of the element encodings that follow it, also    *)
(* when the buffer grows while the elements are written, and the elements  *)
(* are in the array's order.                                               *)
C6_PackedLengthAndOrder ==
  AtMsgEnd =>
    \A f \in PackedFields :
      LET rs == SelectRecs(SegRecs.recs, {f.number})
          xs == ValuesOf(f)
          es == PackedElements(f.descriptortype, rs[1].val)
          w  == IF f.descriptortype \in Fixed32Types THEN 4 ELSE 8
      IN  /\ SegRecs.ok
          /\ Len(rs) = 1
          /\ rs[1].wt = UPB_WIRE_TYPE_DELIMITED
          /\ f.descriptortype \notin VarintTypes => Len(rs[1].val) = w * Len(xs)
          /\ es = [i \in 1..Len(xs) |-> ElementAs(f.descriptortype, xs[i])]

\* The length of a packed field of several elements is about to be written;
\* the field's emitter was entered with at most 112 bytes written, hence in the
\* first buffer of 128 bytes, and the buffer has grown since
C6_Witness ==
  /\ Running("varint_len")
  /\ Top.pre_len >= 1 /\ Top.pre_len <= 112
  /\ Len(buf) > 128
  /\ stack[2] = OpTag(1, UPB_WIRE_TYPE_DELIMITED)
  /\ RootLayout(root) = "R"
  /\ PreLen - Top.pre_len > 10

-----------------------------------------------------------------------------
(* The return of upb_encode_ex *)

Failed == pc = "done" /\ status # "ok"
Succeeded == pc = "done" /\ status = "ok"

(* C2: when the encoder fails, for lack of memory or of depth, the call    *)
(* returns null and the size it reports is 0: nothing of what was written  *)
(* before the failure is handed back.                                      *)
C2_FailureReturnsNothing ==
  Failed => ret = "null" /\ size = 0 /\ Output = <<>>

\* An allocation failed inside a nested message, after bytes had been written
C2_Witness ==
  /\ Failed /\ status = "oom"
  /\ Len(buf) - ptr > 0
  /\ depth < DepthBudget(options)

\* A field that puts no byte in the output: absent, an array or a map without
\* elements, or a sub-message pointer that is null
EmitsNothing(msg, m, f) ==
  \/ ~encode_shouldencode(msg, Layout(m).subs, f)
  \/ f.mode = "ARRAY" /\ (Mem(msg, f.offset).null \/ Mem(msg, f.offset).len = 0)
  \/ f.mode = "MAP" /\ (Mem(msg, f.offset).null \/ Mem(msg, f.offset).entries = <<>>)
  \/ f.mode = "SCALAR" /\ f.descriptortype \in {"MESSAGE", "GROUP"} /\ Mem(msg, f.offset) = NULL

NothingToEmit(msg, m) ==
  /\ \A f \in FieldsOf(m) : EmitsNothing(msg, m, f)
  /\ heap[msg].exts = <<>>
  /\ \/ HasOption(options, UPB_ENCODE_SKIPUNKNOWN)
     \/ heap[msg].unknown.data = <<>>

(* C3: encoding a message with no present fields and nothing else to emit  *)
(* succeeds with a non-null pointer and size 0; a null return always means *)
(* failure.                                                                *)
C3_EmptyMessageNonNull ==
  pc = "done" =>
    /\ ret = "null" <=> status # "ok"
    /\ NothingToEmit(root, RootLayout(root)) => status = "ok" /\ ret = "ch" /\ size = 0

\* The encoding of a message that holds only unknown fields, which the options
\* skip, has returned
C3_Witness ==
  /\ Succeeded
  /\ NothingToEmit(root, RootLayout(root))
  /\ heap[root].unknown.data # <<>>
  /\ allocs = 0

\* The sub-messages the encoder enters from a message, each with its layout
SubMessages(msg, m) ==
  LET subs == Layout(m).subs
      Of(f) ==
        LET mem == Mem(msg, f.offset)
            sub == subs[f.submsg_index + 1]
        IN  CASE EmitsNothing(msg, m, f) -> {}
              [] f.mode = "MAP" ->
                   IF Layout(sub).fields[2].descriptortype = "MESSAGE"
                   THEN {<<mem.entries[i].v, Layout(sub).subs[1]>> : i \in 1..Len(mem.entries)}
                        \ {<<NULL, Layout(sub).subs[1]>>}
                   ELSE {}
              [] f.descriptortype \notin {"MESSAGE", "GROUP"} -> {}
              [] f.mode = "ARRAY" -> {<<mem.data[i], sub>> : i \in 1..mem.len}
              [] OTHER -> {<<mem, sub>>}
      exts == heap[msg].exts
  IN  UNION {Of(f) : f \in FieldsOf(m)}
      \cup {<<exts[i].data, exts[i].ext.sub>> :
              i \in {j \in 1..Len(exts) : exts[j].ext.field.descriptortype = "MESSAGE"}}

Max(S) == CHOOSE x \in S : \A y \in S : y <= x

RECURSIVE Nesting(_, _, _)
\* The length of the longest chain of nested messages that starts at msg, the
\* message itself counted, up to fuel
Nesting(msg, m, fuel) ==
  IF fuel = 0 THEN 0
  ELSE 1 + Max({0} \cup {Nesting(c[1], c[2], fuel - 1) : c \in SubMessages(msg, m)})

RootNesting == Nesting(root, RootLayout(root), MaxChain + 1)

(* C4: with depth budget D, encoding a chain of D+1 nested messages, the   *)
(* top-level message counted as the first, fails with max-depth, and       *)
(* encoding a chain of D nested messages succeeds.                         *)
C4_DepthBudget ==
  pc = "done" =>
    /\ RootNesting = DepthBudget(options) + 1 => status # "ok"
    /\ RootNesting = DepthBudget(options) => status # "maxdepth"

\* The same for the messages that are not nested through MessageSet items
DepthBudgetOfFields ==
  pc = "done" /\ root[1] \notin {"MSc", "MSx"} =>
    /\ RootNesting = DepthBudget(options) + 1 => status = "maxdepth" \/ status = "oom"
    /\ RootNesting = DepthBudget(options) => status # "maxdepth"

DepthBudgetOfFieldsWitness ==
  /\ pc = "done" /\ root[1] = "Nc"
  /\ RootNesting = DepthBudget(options) + 1
  /\ status = "maxdepth"

-----------------------------------------------------------------------------
(* The value of a message, and a decoder of the wire format (spec 6.2)     *)
(* that yields values.  A value is [ok, fields, exts, unknown]: fields[i]  *)
(* is for the i-th field of the layout the sequence of its elements (none  *)
(* or one for a scalar), or the set of the <<key, value>> pairs of a map;  *)
(* exts[n] is the same for the extension of number n.                      *)

\* The extensions a decoder knows for a layout
Registry(m) ==
  CASE m = "N" -> {ExtMsgN, ExtInt, ExtStr}
    [] m = "MS" -> {ExtSetN, ExtSetS}
    [] OTHER -> {}

IsMessageType(f) == f.descriptortype \in {"MESSAGE", "GROUP"}

RECURSIVE ValueOf(_, _, _, _, _)
\* The value the message at msg holds; its unknown fields count if keep, and
\* with stored the order in which the extensions are stored is kept as well
ValueOf(msg, m, keep, stored, fuel) ==
  IF fuel = 0
  THEN [ok |-> FALSE, fields |-> <<>>, exts |-> <<>>, unknown |-> <<>>, order |-> <<>>]
  ELSE
  LET L == Layout(m)
      Val(f, x, sub) ==
        IF IsMessageType(f) THEN ValueOf(x, sub, keep, stored, fuel - 1) ELSE x
      Field(f) ==
        LET mem == Mem(msg, f.offset)
            sub == IF f.mode = "MAP" \/ IsMessageType(f) THEN L.subs[f.submsg_index + 1] ELSE ""
        IN  CASE f.mode = "MAP" ->
                   IF mem.null THEN {}
                   ELSE {<<mem.entries[i].k,
                           Val(Layout(sub).fields[2], mem.entries[i].v,
                               IF Layout(sub).subs = <<>> THEN "" ELSE Layout(sub).subs[1])>> :
                           i \in 1..Len(mem.entries)}
              [] EmitsNothing(msg, m, f) -> <<>>
              [] f.mode = "ARRAY" -> [j \in 1..mem.len |-> Val(f, mem.data[j], sub)]
              [] OTHER -> <<Val(f, mem, sub)>>
      exts == heap[msg].exts
  IN  [ok |-> TRUE,
       fields |-> [i \in 1..Len(L.fields) |-> Field(L.fields[i])],
       exts |-> [n \in {e.field.number : e \in Registry(m)} |->
                   IF \E i \in 1..Len(exts) : exts[i].ext.field.number = n
                   THEN LET x == exts[CHOOSE i \in 1..Len(exts) : exts[i].ext.field.number = n]
                        IN  <<Val(x.ext.field, x.data, x.ext.sub)>>
                   ELSE <<>>],
       unknown |-> IF keep THEN heap[msg].unknown.data ELSE <<>>,
       order |-> IF stored THEN [i \in 1..Len(exts) |-> exts[i].ext.field.number] ELSE <<>>]

\* The wire types a decoder accepts for a field
WireTypesFor(f) ==
  LET t == f.descriptortype
      packable == IF f.mode = "ARRAY" THEN {UPB_WIRE_TYPE_DELIMITED} ELSE {}
  IN  CASE f.mode = "MAP" -> {UPB_WIRE_TYPE_DELIMITED}
        [] t \in VarintTypes -> {UPB_WIRE_TYPE_VARINT} \cup packable
        [] t \in Fixed32Types -> {UPB_WIRE_TYPE_32BIT} \cup packable
        [] t \in Fixed64Types -> {UPB_WIRE_TYPE_64BIT} \cup packable
        [] t = "GROUP" -> {UPB_WIRE_TYPE_START_GROUP}
        [] OTHER -> {UPB_WIRE_TYPE_DELIMITED}

\* The value whose little-endian bytes are given
FromLEBytes(bytes) == Concat([i \in 1..Len(bytes) |-> Bits(bytes[i], 8)])

Last(s) == s[Len(s)]

RECURSIVE Decode(_, _)
Decode(bytes, m) ==
  LET p == Parse(bytes)
      L == Layout(m)
      reg == Registry(m)
      Accepts(f, r) == r.number = f.number /\ r.wt \in WireTypesFor(f)
      RecsOf(f) == SelectSeq(p.recs, LAMBDA r : Accepts(f, r))
      Elem(f, r, sub) ==
        LET t == f.descriptortype
        IN  CASE t \in VarintTypes -> DecodeVarintAs(t, r.val)
              [] t \in Fixed32Types \cup Fixed64Types -> FromLEBytes(r.val)
              [] IsMessageType(f) -> Decode(r.val, sub)
              [] OTHER -> r.val
      Elems(f, r, sub) ==
        LET t == f.descriptortype
        IN  IF r.wt = UPB_WIRE_TYPE_DELIMITED /\ t \in VarintTypes
            THEN PackedElements(t, r.val)
            ELSE IF r.wt = UPB_WIRE_TYPE_DELIMITED /\ t \in Fixed32Types \cup Fixed64Types
            THEN LET cs == PackedElements(t, r.val)
                 IN  [i \in 1..Len(cs) |-> FromLEBytes(cs[i])]
            ELSE <<Elem(f, r, sub)>>
      IsDefault(f, v) ==
        IF f.descriptortype \in {"STRING", "BYTES"} THEN v = <<>> ELSE ~NonZero(v)
      Entry(r, sub) ==
        LET e == Decode(r.val, sub)
            kf == Layout(sub).fields[1]
            vf == Layout(sub).fields[2]
        IN  <<IF e.fields[1] = <<>> THEN ZeroSlot(kf) ELSE e.fields[1][1],
              IF e.fields[2] # <<>> THEN e.fields[2][1]
              ELSE IF IsMessageType(vf) THEN Decode(<<>>, Layout(sub).subs[1])
              ELSE ZeroSlot(vf)>>
      Field(f) ==
        LET rs == RecsOf(f)
            sub == IF f.mode = "MAP" \/ IsMessageType(f) THEN L.subs[f.submsg_index + 1] ELSE ""
        IN  CASE f.mode = "MAP" ->
                   {Entry(rs[i], sub) : i \in
                      {j \in 1..Len(rs) :
                         \A k \in (j + 1)..Len(rs) : Entry(rs[k], sub)[1] # Entry(rs[j], sub)[1]}}
              [] f.mode = "ARRAY" -> Concat([j \in 1..Len(rs) |-> Elems(f, rs[j], sub)])
              [] rs = <<>> -> <<>>
              [] OTHER ->
                   LET r == Last(rs)
                       v == Elem(f, r, sub)
                       others == {g \in FieldsOf(m) : g.presence = f.presence /\ g # f}
                   IN  IF /\ f.presence < 0
                          /\ \E g \in others : \E i \in 1..Len(p.recs) :
                               Accepts(g, p.recs[i]) /\ p.recs[i].start > r.start
                       THEN <<>>
                       ELSE IF f.presence = 0 /\ ~IsMessageType(f) /\ IsDefault(f, v) THEN <<>>
                       ELSE <<v>>
      \* MessageSet items: the type_id and the message of a group of field 1
      IsItem(r) == L.ext = "MSGSET" /\ r.number = 1 /\ r.wt = UPB_WIRE_TYPE_START_GROUP
      TypeId(r) ==
        LET ids == SelectSeq(r.sub, LAMBDA x : x.number = 2 /\ x.wt = UPB_WIRE_TYPE_VARINT)
        IN  IF ids = <<>> THEN 0 ELSE BitsToNat(SubSeq(Last(ids).val, 1, 29))
      Payload(r) ==
        LET ms == SelectSeq(r.sub, LAMBDA x : x.number = 3 /\ x.wt = UPB_WIRE_TYPE_DELIMITED)
        IN  IF ms = <<>> THEN <<>> ELSE Last(ms).val
      Ext(e) ==
        IF L.ext = "MSGSET"
        THEN LET rs == SelectSeq(p.recs, LAMBDA r : IsItem(r) /\ TypeId(r) = e.field.number)
             IN  IF rs = <<>> THEN <<>> ELSE <<Decode(Payload(Last(rs)), e.sub)>>
        ELSE LET rs == RecsOf(e.field)
             IN  IF rs = <<>> THEN <<>> ELSE <<Elem(e.field, Last(rs), e.sub)>>
      Known(r) ==
        \/ \E f \in FieldsOf(m) : Accepts(f, r)
        \/ L.ext = "EXTENDABLE" /\ \E e \in reg : Accepts(e.field, r)
        \/ IsItem(r) /\ \E e \in reg : TypeId(r) = e.field.number
      strays == SelectSeq(p.recs, LAMBDA r : ~Known(r))
  IN  [ok |-> p.ok,
       fields |-> [i \in 1..Len(L.fields) |-> Field(L.fields[i])],
       exts |-> [n \in {e.field.number : e \in reg} |->
                   Ext(CHOOSE e \in reg : e.field.number = n)],
       unknown |-> Concat([i \in 1..Len(strays) |-> Raw(bytes, strays[i])]),
       order |-> <<>>]

\* The value of the message upb_encode_ex was called with
RootValue ==
  ValueOf(root, RootLayout(root), ~HasOption(options, UPB_ENCODE_SKIPUNKNOWN), FALSE,
          MaxChain + 1)

\* The same with the order in which the extensions are stored
RootValueAsStored ==
  ValueOf(root, RootLayout(root), ~HasOption(options, UPB_ENCODE_SKIPUNKNOWN), TRUE,
          MaxChain + 1)

(* C1: decoding the bytes of a successful upb_encode_ex(m, L) with a       *)
(* decoder for L yields a message value-equal to m (but for the unknown    *)
(* fields the options ask to skip).                                        *)
C1_RoundTrip ==
  Succeeded => Decode(Output, RootLayout(root)) = RootValue

\* The same on little-endian hosts
RoundTripLittleEndian ==
  Succeeded /\ ~big_endian => Decode(Output, RootLayout(root)) = RootValue

RoundTripLittleEndianWitness ==
  /\ Succeeded /\ ~big_endian
  /\ \E f \in FieldsOf(RootLayout(root)) :
       f.mode = "ARRAY" /\ f.descriptortype \in Fixed64Types /\ Mem(root, f.offset).len > 1

-----------------------------------------------------------------------------
(* Two calls of upb_encode_ex: after a successful call the caller encodes, *)
(* with the same options, a message of the same layout.                    *)

\* The messages a second call may be given: those of the same layout built by
\* the same code, which differ in one parameter
SameLayoutRoots(r) ==
  {q \in Roots :
     /\ RootLayout(q) = RootLayout(r)
     /\ Len(q) = Len(r)
     /\ \A i \in 1..(Len(r) - 1) : q[i] = r[i]}

EncodeAgain ==
  /\ Succeeded /\ run = 1
  /\ prev' = [out |-> Output, value |-> RootValue, stored |-> RootValueAsStored, root |-> root]
  /\ run' = 2
  /\ \E q \in SameLayoutRoots(root) :
       /\ root' = q
       /\ heap' = [id \in Reachable(q) |-> MsgAt(id)]
  /\ pc' = "start"
  /\ size' = Garbage
  /\ ret' = "unset"
  /\ status' = "running"
  /\ allocs' = 0
  /\ UNCHANGED <<big_endian, options, buf, ptr, depth, sorter, stack>>

NextPair == Next \/ EncodeAgain

SpecPair == Init /\ [][NextPair]_vars

(* C10: with DETERMINISTIC set, two encodes of value-equal messages under  *)
(* the same layout and options return the same bytes, also when the        *)
(* messages hold equal maps that were built in different insertion orders. *)
C10_Deterministic ==
  /\ Succeeded /\ run = 2
  /\ HasOption(options, UPB_ENCODE_DETERMINISTIC)
  /\ prev.value = RootValue
  => Output = prev.out

\* The same for messages that store their extensions in the same order
DeterministicStoredAlike ==
  /\ Succeeded /\ run = 2
  /\ HasOption(options, UPB_ENCODE_DETERMINISTIC)
  /\ prev.stored = RootValueAsStored
  => Output = prev.out

\* The second of two messages that are equal in value and whose maps of
\* several entries differ in table order has been encoded
DeterministicStoredAlikeWitness ==
  /\ Succeeded /\ run = 2
  /\ HasOption(options, UPB_ENCODE_DETERMINISTIC)
  /\ prev.stored = RootValueAsStored
  /\ \E f \in FieldsOf(RootLayout(root)) :
       /\ f.mode = "MAP"
       /\ Len(Mem(root, f.offset).entries) >= 2
       /\ Mem(root, f.offset).entries # MsgAt(prev.root).mem[f.offset].entries

-----------------------------------------------------------------------------
(* The order of map entries *)

\* The number a key of an integer or bool type stands for
SignedValue(v) ==
  LET n == Len(v)
  IN  IF v[n] = 1
      THEN BitsToNat(SubSeq(v, 1, n - 1)) - BitsToNat([i \in 1..(n - 1) |-> 1]) - 1
      ELSE BitsToNat(SubSeq(v, 1, n - 1))

\* a comes before b in the natural order of the key type
KeyBefore(key_type, a, b) ==
  IF key_type \in {"STRING", "BYTES"} THEN BytesLess(a, b)
  ELSE IF key_type \in {"INT32", "SINT32", "SFIXED32"} THEN SignedValue(a) < SignedValue(b)
  ELSE IF key_type = "BOOL" THEN a = I8(0) /\ b = I8(1)
  ELSE UnsignedLess(a, b)

\* The map fields of the message at AtMsgEnd
MapFields == {f \in FieldsOf(Top.m) : f.mode = "MAP"}

\* The keys of the entries of a map field in the region of the message at
\* AtMsgEnd, in output order
KeysWritten(f) ==
  LET sub == Layout(Top.m).subs[f.submsg_index + 1]
      rs  == SelectRecs(SegRecs.recs, {f.number})
  IN  [i \in 1..Len(rs) |->
         LET e == Decode(rs[i].val, sub)
         IN  IF e.fields[1] = <<>> THEN ZeroSlot(Layout(sub).fields[1]) ELSE e.fields[1][1]]

KeyTypeOf(f) == Layout(Layout(Top.m).subs[f.submsg_index + 1]).fields[1].descriptortype

(* C11: in deterministic mode the entries of a map field appear in the     *)
(* output in ascending key order: numeric for integer keys, lexicographic  *)
(* for string and bytes keys, false before true for bool keys.             *)
C11_SortedMapEntries ==
  AtMsgEnd /\ HasOption(options, UPB_ENCODE_DETERMINISTIC) =>
    \A f \in MapFields :
      LET ks == KeysWritten(f)
          map == Mem(Top.msg, f.offset)
      IN  /\ SegRecs.ok
          /\ Len(ks) = IF map.null THEN 0 ELSE Len(map.entries)
          /\ \A i \in 1..(Len(ks) - 1) : KeyBefore(KeyTypeOf(f), ks[i], ks[i + 1])

\* A message with a map of integer keys and a map of string keys, each of three
\* entries that the table holds in another order than the ascending one, has
\* been written in deterministic mode
C11_Witness ==
  /\ AtMsgEnd /\ HasOption(options, UPB_ENCODE_DETERMINISTIC)
  /\ \E f, g \in MapFields :
       /\ KeyTypeOf(f) = "INT32" /\ KeyTypeOf(g) = "STRING"
       /\ \A h \in {f, g} :
            LET es == Mem(Top.msg, h.offset).entries
            IN  /\ Len(es) = 3
                /\ \E i \in 1..2 : ~KeyBefore(KeyTypeOf(h), es[i].k, es[i + 1].k)
                /\ Len(KeysWritten(h)) = 3

-----------------------------------------------------------------------------
(* The depth budget *)

\* The number in the upper 16 bits of a 32-bit bitmask
UpperHalf(opts) == BitsToNat(SubSeq(Bits(opts, 32), 17, 32))

(* C12: the depth budget of an encode is the value in the upper 16 bits of *)
(* the options bitmask, and 64 when those bits are all zero; the lower     *)
(* option bits do not change it.                                           *)
C12_BudgetFromUpperBits ==
  [][pc = "start" =>
       depth' = IF UpperHalf(options) = 0 THEN 64 ELSE UpperHalf(options)]_vars

\* An encode with both low option bits and the top bit of the override set has
\* ended with the counter back at its budget
C12_Witness ==
  /\ Succeeded
  /\ options < 0
  /\ HasOption(options, UPB_ENCODE_DETERMINISTIC)
  /\ HasOption(options, UPB_ENCODE_SKIPUNKNOWN)
  /\ depth = UpperHalf(options)
  /\ depth > 64
  /\ allocs > 0

(* C13: entering any sub-message, by any path, decrements the depth        *)
(* counter and signals max-depth when it reaches zero; hence the nesting   *)
(* depth of message-emitter activations never exceeds the depth budget.    *)
C13_NestingWithinBudget ==
  pc = "encoding" /\ Activations >= 1 =>
    /\ Activations <= DepthBudget(options)
    /\ depth <= DepthBudget(options) - (Activations - 1)

\* The same for the messages that hold no MessageSet items
NestingWithinBudgetOfFields ==
  pc = "encoding" /\ Activations >= 1 /\ root[1] \notin {"MSc", "MSx"} =>
    /\ Activations <= DepthBudget(options)
    /\ depth <= DepthBudget(options) - (Activations - 1)

NestingWithinBudgetOfFieldsWitness ==
  /\ pc = "encoding" /\ root[1] \notin {"MSc", "MSx"}
  /\ Activations = DepthBudget(options)
  /\ Activations >= 3
  /\ depth = 1

-----------------------------------------------------------------------------
(* Termination *)

\* The sub-message pointers of the message lead back to a message on the way
Cyclic == RootNesting > MaxChain

(* C14: every call to upb_encode_ex terminates, returning success or       *)
(* failure: recursion is bounded by the depth budget, so even message data *)
(* whose sub-message pointers form a cycle ends with a max-depth failure   *)
(* and does not recurse without end. A call that recurses without end is   *)
(* one that reaches StackOverflow.                                         *)
C14_Terminates ==
  /\ pc # "overflow"
  /\ Activations <= DepthBudget(options)
  /\ pc = "done" /\ Cyclic => status = "maxdepth" \/ status = "oom"

\* The same for the messages that hold no MessageSet items
TerminatesOfFields ==
  root[1] \notin {"MSc", "MSx", "MScyc"} =>
    /\ pc # "overflow"
    /\ Activations <= DepthBudget(options)
    /\ pc = "done" /\ Cyclic => status = "maxdepth" \/ status = "oom"

\* A message that holds itself in a message field has failed with max-depth
\* under the default budget
TerminatesOfFieldsWitness ==
  /\ pc = "done" /\ Cyclic /\ root[1] = "Ncyc"
  /\ status = "maxdepth"
  /\ DepthBudget(options) = 64

-----------------------------------------------------------------------------
(* The buffer *)

VarintOps == {"varint", "varint_size", "varint_len"}

\* The bytes the pending call at the top of the stack writes
BytesOfTop ==
  IF Top.op = "bytes" THEN Top.data
  ELSE IF Top.op \in VarintOps THEN encode_varint64(VarintArg(Top))
  ELSE <<>>

(* C15: in every state of an encode, after every reserve, grow, byte write *)
(* and varint write (fast or slow path), base <= write_cursor <= limit     *)
(* holds and the bytes written so far are exactly the region               *)
(* [write_cursor, limit): every step puts the bytes it writes in front of  *)
(* the region and leaves the rest of it as it was.                         *)
C15_BufferInvariant ==
  [][/\ pc' = "encoding" =>
          /\ 0 <= ptr' /\ ptr' <= Len(buf')
          /\ \A i \in (ptr' + 1)..Len(buf') : buf'[i] # Garbage
     /\ pc = "encoding" /\ pc' = "encoding" =>
          Written(buf', ptr') = BytesOfTop \o Written(buf, ptr)]_vars

\* The buffer has grown twice, a varint of more than one byte has just been
\* written by the slow path and room is left below the cursor
C15_Witness ==
  /\ pc = "encoding"
  /\ Len(buf) >= 256 /\ allocs >= 2
  /\ ptr > 0
  /\ Len(buf) - ptr > 128
  /\ buf[ptr] = Garbage
  /\ buf[ptr + 1] >= 128

\* The number of bytes the pending call at the top of the stack reserves:
\* encode_bytes its length, encode_longvarint 16, the fast path none
ReservedByTop ==
  IF Top.op = "bytes" THEN Len(Top.data)
  ELSE IF Top.op \in VarintOps /\ (Above127(VarintArg(Top)) \/ ptr = 0) THEN 16
  ELSE 0

\* The step calls encode_growbuffer and upb_malloc gives it the memory
Grows == pc = "encoding" /\ pc' = "encoding" /\ stack # <<>> /\ ptr < ReservedByTop

RECURSIVE IsPow2(_)
IsPow2(n) == n = 1 \/ (n > 1 /\ n % 2 = 0 /\ IsPow2(n \div 2))

(* C16: grow(n) allocates a buffer of size round_up_pow2(n + used): a      *)
(* power of two that is at least 128, at least n + used and the least such,*)
(* and strictly larger than the previous capacity; it leaves the sequence  *)
(* of already-written bytes unchanged, at the high end of the new          *)
(* allocation, with the n reserved bytes directly below them.              *)
C16_Grow ==
  [][Grows =>
       LET n    == ReservedByTop
           used == Len(buf) - ptr
           new  == Len(buf')
       IN  /\ IsPow2(new) /\ new >= 128
           /\ new >= n + used
           /\ new = 128 \/ new \div 2 < n + used
           /\ new > Len(buf)
           /\ SubSeq(buf', new - used + 1, new) = Written(buf, ptr)
           /\ new - used - n >= 0
           /\ ptr' = (new - used - n) + (n - Len(BytesOfTop))
           /\ SubSeq(buf', ptr' + 1, new - used) = BytesOfTop]_vars

\* The second allocation of an encode: 256 bytes, which hold at their high end
\* what the 128 bytes of the first held and the bytes written since
C16_Witness ==
  /\ pc = "encoding"
  /\ allocs = 2 /\ Len(buf) = 256
  /\ Len(buf) - ptr > 128
  /\ \A i \in (ptr + 1)..Len(buf) : buf[i] # Garbage

-----------------------------------------------------------------------------
(* Length prefixes *)

RECURSIVE SumSeq(_)
SumSeq(ns) == IF ns = <<>> THEN 0 ELSE Head(ns) + SumSeq(Tail(ns))

\* The number of records a declared field puts in the output
RecordsOf(msg, m, f) ==
  LET mem == Mem(msg, f.offset)
  IN  CASE EmitsNothing(msg, m, f) -> 0
        [] f.mode = "MAP" -> Len(mem.entries)
        [] f.mode = "ARRAY" -> IF f.packed THEN 1 ELSE mem.len
        [] OTHER -> 1

RECURSIVE WellFramed(_, _, _, _)
\* The bytes are the records of the message at msg and nothing else: as many
\* records as the message has things to emit, and every length prefix of a
\* sub-message, of a map entry and of the payload of a MessageSet item
\* delimits bytes that are, in turn, the records of what it stands for
WellFramed(bytes, msg, m, fuel) ==
  LET p == Parse(bytes)
      L == Layout(m)
      exts == heap[msg].exts
      unknown == heap[msg].unknown
      Framed(f, r, x, sub) ==
        /\ r.wt = IF f.descriptortype = "GROUP" THEN UPB_WIRE_TYPE_START_GROUP
                  ELSE UPB_WIRE_TYPE_DELIMITED
        /\ WellFramed(r.val, x, sub, fuel - 1)
      EntryOk(r, entries, sub) ==
        LET q == Parse(r.val)
            vf == Layout(sub).fields[2]
        IN  /\ r.wt = UPB_WIRE_TYPE_DELIMITED
            /\ q.ok
            /\ \E i \in 1..Len(entries) :
                 LET hasval == ~IsMessageType(vf) \/ entries[i].v # NULL
                 IN  /\ Len(q.recs) = IF hasval THEN 2 ELSE 1
                     /\ q.recs[1].number = 1
                     /\ hasval => q.recs[2].number = 2
                     /\ hasval /\ IsMessageType(vf) =>
                          Framed(vf, q.recs[2], entries[i].v, Layout(sub).subs[1])
      FieldOk(f) ==
        LET rs == SelectRecs(p.recs, {f.number})
            mem == Mem(msg, f.offset)
            sub == IF f.mode = "MAP" \/ IsMessageType(f) THEN L.subs[f.submsg_index + 1] ELSE ""
        IN  /\ Len(rs) = RecordsOf(msg, m, f)
            /\ CASE rs = <<>> -> TRUE
                 [] f.mode = "MAP" -> \A i \in 1..Len(rs) : EntryOk(rs[i], mem.entries, sub)
                 [] IsMessageType(f) /\ f.mode = "ARRAY" ->
                      \A i \in 1..Len(rs) : Framed(f, rs[i], mem.data[i], sub)
                 [] IsMessageType(f) -> Framed(f, rs[1], mem, sub)
                 [] OTHER -> TRUE
      ExtOk(x) ==
        LET rs == SelectRecs(p.recs, {x.ext.field.number})
        IN  /\ Len(rs) = 1
            /\ IsMessageType(x.ext.field) => Framed(x.ext.field, rs[1], x.data, x.ext.sub)
      ItemOk(r) ==
        /\ r.wt = UPB_WIRE_TYPE_START_GROUP
        /\ Len(r.sub) = 2
        /\ r.sub[1].number = 2 /\ r.sub[1].wt = UPB_WIRE_TYPE_VARINT
        /\ r.sub[2].number = 3
        /\ \E i \in 1..Len(exts) :
             /\ BitsToNat(SubSeq(r.sub[1].val, 1, 29)) = exts[i].ext.field.number
             /\ Framed(exts[i].ext.field, r.sub[2], exts[i].data, exts[i].ext.sub)
      items == SelectRecs(p.recs, {1})
      strays == IF HasOption(options, UPB_ENCODE_SKIPUNKNOWN) \/ unknown.null THEN <<>>
                ELSE Parse(unknown.data).recs
  IN  /\ fuel > 0
      /\ p.ok
      /\ Len(p.recs) = SumSeq([i \in 1..Len(L.fields) |-> RecordsOf(msg, m, L.fields[i])])
                       + Len(exts) + Len(strays)
      /\ \A f \in FieldsOf(m) : FieldOk(f)
      /\ IF L.ext = "MSGSET"
         THEN Len(items) = Len(exts) /\ \A i \in 1..Len(items) : ItemOk(items[i])
         ELSE \A i \in 1..Len(exts) : ExtOk(exts[i])

(* C17: for every MESSAGE-typed field, repeated message element, map entry *)
(* and MessageSet item, the length varint that precedes the payload in the *)
(* output equals the exact number of payload bytes, also when the buffer   *)
(* is reallocated while the payload is being written: the bytes each       *)
(* length delimits are the records of the sub-message, entry or item, no   *)
(* more and no fewer, at every level of nesting.                           *)
C17_LengthsExact ==
  Succeeded => WellFramed(Output, root, RootLayout(root), MaxChain + 1)

\* The payload of the record r of the output begins before and ends after the
\* byte at which the 128 bytes of the first allocation were used up: the
\* buffer was reallocated while the payload was being written
Straddles(r) ==
  /\ r.wt = UPB_WIRE_TYPE_DELIMITED
  /\ Len(Output) - r.end < 128
  /\ Len(Output) - (r.end - Len(r.val)) > 128

\* A repeated sub-message whose payload was being written when the buffer grew
C17_Witness ==
  /\ Succeeded
  /\ allocs >= 2
  /\ \E f \in FieldsOf(RootLayout(root)) :
       /\ IsMessageType(f) /\ ~EmitsNothing(root, RootLayout(root), f)
       /\ \E i \in 1..Len(Parse(Output).recs) :
            LET r == Parse(Output).recs[i]
            IN  r.number = f.number /\ Straddles(r)

-----------------------------------------------------------------------------
(* The place and the order of the extensions *)

\* The number of records the declared fields of the message at AtMsgEnd put
\* in the output
DeclaredCount ==
  SumSeq([i \in 1..Len(Layout(Top.m).fields) |->
            RecordsOf(Top.msg, Top.m, Layout(Top.m).fields[i])])

StoredExts == heap[Top.msg].exts

\* The extension a record of the output is of: its field number, or the
\* type_id of a MessageSet item; 0 if it is neither
ExtIdOf(r) ==
  IF Layout(Top.m).ext # "MSGSET" THEN r.number
  ELSE IF r.number = 1 /\ r.wt = UPB_WIRE_TYPE_START_GROUP /\ Len(r.sub) >= 1
          /\ r.sub[1].number = 2 /\ r.sub[1].wt = UPB_WIRE_TYPE_VARINT
       THEN BitsToNat(SubSeq(r.sub[1].val, 1, 29))
       ELSE 0

\* The records of the message are those of its declared fields, then one for
\* each extension, then the unknown fields and nothing else
ExtensionsBetween ==
  LET recs == SegRecs.recs
      unknown == heap[Top.msg].unknown
      blob == IF HasOption(options, UPB_ENCODE_SKIPUNKNOWN) \/ unknown.null THEN <<>>
              ELSE unknown.data
      last == DeclaredCount + Len(StoredExts)
  IN  /\ SegRecs.ok
      /\ Len(recs) >= last
      /\ \A i \in 1..DeclaredCount : recs[i].number \in DeclaredNumbers(Top.m)
      /\ (IF last = 0 THEN 0 ELSE recs[last].end) = Len(Segment) - Len(blob)
      /\ SubSeq(Segment, Len(Segment) - Len(blob) + 1, Len(Segment)) = blob

\* The extension records of the output, in their order in the output
ExtIdsWritten ==
  [i \in 1..Len(StoredExts) |-> ExtIdOf(SegRecs.recs[DeclaredCount + i])]

(* C18, as the claim states it: the extensions attached to an extendable   *)
(* message appear in the output in the order of the message's extension    *)
(* side list, not reordered relative to each other, and all of them        *)
(* between the declared fields and the unknown-fields blob.                *)
C18_StorageOrder ==
  AtMsgEnd /\ Layout(Top.m).ext # "NONE" =>
    /\ ExtensionsBetween
    /\ ExtIdsWritten = [i \in 1..Len(StoredExts) |-> StoredExts[i].ext.field.number]

(* C18 amended: the extensions are written in the order of the side list,  *)
(* and since the buffer is written backwards they appear in the output in  *)
(* the reverse of that order, not reordered otherwise, and all of them     *)
(* between the declared fields and the unknown-fields blob.                *)
C18_ReverseStorageOrder ==
  AtMsgEnd /\ Layout(Top.m).ext # "NONE" =>
    /\ ExtensionsBetween
    /\ ExtIdsWritten =
         [i \in 1..Len(StoredExts) |-> StoredExts[Len(StoredExts) + 1 - i].ext.field.number]

\* A message with a declared field, two extensions of different numbers and
\* unknown fields is written
C18_Witness ==
  /\ AtMsgEnd /\ Layout(Top.m).ext # "NONE"
  /\ Len(StoredExts) >= 2
  /\ StoredExts[1].ext.field.number # StoredExts[2].ext.field.number
  /\ DeclaredCount >= 1
  /\ ~HasOption(options, UPB_ENCODE_SKIPUNKNOWN)
  /\ ~heap[Top.msg].unknown.null /\ heap[Top.msg].unknown.data # <<>>

-----------------------------------------------------------------------------
(* Null sub-message pointers *)

\* The scalar MESSAGE and GROUP fields of a message whose pointer is null
NullSubMessages(msg, m) ==
  {f \in FieldsOf(m) : f.mode = "SCALAR" /\ IsMessageType(f) /\ Mem(msg, f.offset) = NULL}

(* C19: a scalar MESSAGE or GROUP field whose sub-message pointer is null  *)
(* is skipped entirely: handling it writes nothing and leaves nothing to   *)
(* be done, so no tag, no length and no group markers are in the output of *)
(* its message, and the depth counter is not changed; this holds even when *)
(* the field's hasbit or oneof case marks it present.                      *)
C19_NullSubMessageSkipped ==
  [][/\ Running("field") /\ Top.f.mode = "SCALAR" /\ IsMessageType(Top.f)
        /\ Mem(Top.msg, Top.f.offset) = NULL =>
          stack' = Tail(stack) /\ UNCHANGED <<buf, ptr, depth, pc>>
     /\ AtMsgEnd =>
          /\ SegRecs.ok
          /\ \A f \in NullSubMessages(Top.msg, Top.m) :
               SelectRecs(SegRecs.recs, {f.number}) = <<>>]_vars

\* A message is written whose oneof case names a MESSAGE field and whose
\* hasbits name another, both with a null pointer, beside an INT32 field
C19_Witness ==
  /\ AtMsgEnd
  /\ \E f, g \in NullSubMessages(Top.msg, Top.m) :
       /\ f.presence < 0 /\ g.presence > 0
       /\ encode_shouldencode(Top.msg, Layout(Top.m).subs, f)
       /\ encode_shouldencode(Top.msg, Layout(Top.m).subs, g)
  /\ Len(Segment) > 0
  /\ depth = DepthBudget(options)

-----------------------------------------------------------------------------
(* Fixed-width repeated elements *)

\* The repeated fields of fixed-width elements that hold elements
FixedArrays(msg, m) ==
  {f \in FieldsOf(m) :
     /\ f.mode = "ARRAY" /\ f.descriptortype \in Fixed32Types \cup Fixed64Types
     /\ ~EmitsNothing(msg, m, f)}

\* The bytes of the elements of a repeated field in the records of the output:
\* the payload of a packed record, or the values of the records one by one
FixedBytesWritten(f) ==
  LET rs == SelectRecs(SegRecs.recs, {f.number})
  IN  Concat([i \in 1..Len(rs) |-> rs[i].val])

\* What encode_fixed32 / encode_fixed64 put in the output for each element:
\* its bytes from the least significant to the most significant
FixedBytesExpected(msg, f) ==
  LET arr == Mem(msg, f.offset)
  IN  Concat([i \in 1..arr.len |-> LEBytes(arr.data[i])])

(* C20: fixed-width repeated elements, packed or unpacked, are in the      *)
(* output in little-endian byte order on every host: the bulk copy of a    *)
(* packed array yields the same bytes as emitting each element with        *)
(* fixed32/fixed64.                                                        *)
C20_FixedArraysLittleEndian ==
  AtMsgEnd =>
    \A f \in FixedArrays(Top.msg, Top.m) :
      /\ SegRecs.ok
      /\ FixedBytesWritten(f) = FixedBytesExpected(Top.msg, f)

\* The same on little-endian hosts, where host memory is in wire order
FixedArraysOnLittleEndian ==
  AtMsgEnd /\ ~big_endian =>
    \A f \in FixedArrays(Top.msg, Top.m) :
      /\ SegRecs.ok
      /\ FixedBytesWritten(f) = FixedBytesExpected(Top.msg, f)

\* A packed FIXED32 array and an unpacked DOUBLE array of two elements each
\* are written on a little-endian host
FixedArraysOnLittleEndianWitness ==
  /\ AtMsgEnd /\ ~big_endian
  /\ \E f, g \in FixedArrays(Top.msg, Top.m) :
       /\ f.packed /\ ~g.packed
       /\ Mem(Top.msg, f.offset).len >= 2 /\ Mem(Top.msg, g.offset).len >= 2
       /\ Len(FixedBytesWritten(f)) = 4 * Mem(Top.msg, f.offset).len
       /\ Len(FixedBytesWritten(g)) = 8 * Mem(Top.msg, g.offset).len

-----------------------------------------------------------------------------
(* Varints *)

\* The number of base-128 digits of a 64-bit value: one for 0
VarintLength(val) ==
  LET set == {i \in 1..64 : val[i] = 1}
  IN  IF set = {} THEN 1 ELSE (Max(set) + 6) \div 7

\* The canonical base-128 little-endian encoding: the digits from the least
\* significant, every one but the last with the continuation bit
CanonicalVarint(val) ==
  LET n == VarintLength(val)
      padded == ZeroExt(val, 70)
  IN  [i \in 1..n |->
         BitsToNat(SubSeq(padded, 7 * i - 6, 7 * i)) + IF i < n THEN 128 ELSE 0]

\* The written region after the slow path on the state as it is, given memory
WrittenBySlowPath(val) ==
  LET r == encode_longvarint([buf |-> buf, ptr |-> ptr, ok |-> TRUE], val, TRUE)
  IN  Written(r.buf, r.ptr)

(* C21: emitting a varint of a 64-bit value v prepends exactly the         *)
(* canonical base-128 little-endian encoding of v (1 to 10 bytes, 1 byte   *)
(* iff v < 128) to the written region and changes no previously written    *)
(* byte; the fast path and the slow path give the same written bytes for   *)
(* every v and every amount of free space, a null initial buffer included. *)
C21_CanonicalVarint ==
  [][pc = "encoding" /\ stack # <<>> /\ Top.op \in VarintOps /\ pc' = "encoding" =>
       LET v == VarintArg(Top)
           n == (Len(buf') - ptr') - (Len(buf) - ptr)
       IN  /\ Written(buf', ptr') = CanonicalVarint(v) \o Written(buf, ptr)
           /\ n >= 1 /\ n <= UPB_PB_VARINT_MAX_LEN
           /\ n = 1 <=> ~Above127(v)
           /\ WrittenBySlowPath(v) = Written(buf', ptr')]_vars

\* A varint of ten bytes is the first thing written, into a buffer that was
\* null: the slow path, with 118 bytes left free below the cursor
C21_Witness ==
  /\ pc = "encoding"
  /\ allocs = 1 /\ Len(buf) = 128 /\ ptr = 118
  /\ \A i \in 1..9 : buf[ptr + i] >= 128
  /\ buf[ptr + 10] = 1

-----------------------------------------------------------------------------
(* The shape of MessageSet items *)

\* The bytes of a tag: the varint of (field_number << 3) | wire_type
TagBytes(number, wire_type) == CanonicalVarint(Bits(number * 8 + wire_type, 64))

\* The bytes of a length
LengthBytes(n) == CanonicalVarint(Bits(n, 64))

(* C22: on a messageset-shaped message, each extension with field number N *)
(* and message payload P of length L is in the output as START_GROUP tag   *)
(* of field 1, tag(2, VARINT), varint(N), tag(3, DELIMITED), varint(L), P, *)
(* END_GROUP tag of field 1, in exactly this order; P is the encoding of   *)
(* the extension's message.                                                *)
C22_MessageSetItemShape ==
  AtMsgEnd /\ Layout(Top.m).ext = "MSGSET" =>
    LET ne == Len(StoredExts)
    IN  /\ SegRecs.ok
        /\ Len(SegRecs.recs) >= DeclaredCount + ne
        /\ \A i \in 1..ne :
             LET r == SegRecs.recs[DeclaredCount + i]
                 x == StoredExts[ne + 1 - i]
                 P == IF Len(r.sub) >= 2 THEN r.sub[2].val ELSE <<>>
             IN  /\ Raw(Segment, r) =
                      TagBytes(1, UPB_WIRE_TYPE_START_GROUP)
                      \o TagBytes(2, UPB_WIRE_TYPE_VARINT)
                      \o CanonicalVarint(Bits(x.ext.field.number, 64))
                      \o TagBytes(3, UPB_WIRE_TYPE_DELIMITED)
                      \o LengthBytes(Len(P))
                      \o P
                      \o TagBytes(1, UPB_WIRE_TYPE_END_GROUP)
                 /\ WellFramed(P, x.data, x.ext.sub, MaxChain + 1)

\* A MessageSet message with two items is written, one with a payload of
\* some bytes and one with an empty payload
C22_Witness ==
  /\ AtMsgEnd /\ Layout(Top.m).ext = "MSGSET"
  /\ Len(StoredExts) = 2
  /\ SegRecs.ok /\ Len(SegRecs.recs) >= 2
  /\ Len(SegRecs.recs[1].sub) = 2 /\ Len(SegRecs.recs[2].sub) = 2
  /\ \E i, j \in 1..2 :
       Len(SegRecs.recs[i].sub[2].val) > 0 /\ Len(SegRecs.recs[j].sub[2].val) = 0

-----------------------------------------------------------------------------
(* The presence policy *)

\* The value slot of a field with presence code 0 does not hold the default
NonDefaultSlot(msg, f) ==
  LET slot == Mem(msg, f.offset)
  IN  CASE f.rep = "STRVIEW" -> slot # <<>>
        [] f.rep = "PTR" /\ f.mode = "SCALAR" -> slot # NULL
        [] f.rep = "PTR" -> ~slot.null
        [] OTHER -> \E i \in 1..Len(slot) : slot[i] = 1

\* What the policy says of a declared field
PolicyPresent(msg, f) ==
  \/ f.presence = 0 /\ NonDefaultSlot(msg, f)
  \/ f.presence > 0 /\ f.presence \in heap[msg].hasbits
  \/ f.presence < 0 /\ heap[msg].mem[0 - f.presence - 1] = f.number

\* A field that is dispatched and whose emitter has nothing to write: an array
\* or a map without elements, a null sub-message pointer
EmitterWritesNothing(msg, f) ==
  LET slot == Mem(msg, f.offset)
  IN  \/ f.mode = "ARRAY" /\ (slot.null \/ slot.len = 0)
      \/ f.mode = "MAP" /\ (slot.null \/ slot.entries = <<>>)
      \/ f.mode = "SCALAR" /\ IsMessageType(f) /\ slot = NULL

(* C23: a declared field is dispatched to an emitter if and only if        *)
(* (presence code 0) its value slot is non-default (1/4/8-byte slot        *)
(* non-zero, string-view non-empty, pointer non-null), or (positive        *)
(* presence) its hasbit is set, whatever the value, or (negative presence) *)
(* the oneof case stored at offset ~presence equals the field's number;    *)
(* the records of a message are of the fields the policy names.            *)
C23_PresencePolicy ==
  [][/\ Running("field") /\ Top.check =>
          IF PolicyPresent(Top.msg, Top.f)
          THEN stack' = encode_field_impl(Top.msg, Top.subs, Top.f, PreLen, sorter', options)
                        \o Tail(stack)
          ELSE stack' = Tail(stack) /\ sorter' = sorter
     /\ AtMsgEnd =>
          /\ SegRecs.ok
          /\ \A f \in FieldsOf(Top.m) :
               LET written == \E i \in 1..DeclaredCount : SegRecs.recs[i].number = f.number
               IN  written <=> PolicyPresent(Top.msg, f) /\ ~EmitterWritesNothing(Top.msg, f)]_vars

\* A message is written with a field whose hasbit is set and whose value is
\* zero, a member of a oneof that the case names, another member that it does
\* not name, a field of presence code 0 with a value and one with the default
C23_Witness ==
  LET InOutput(w) == \E i \in 1..Len(SegRecs.recs) : SegRecs.recs[i].number = w.number
      fs == FieldsOf(Top.m)
  IN  /\ AtMsgEnd
      /\ \E f \in fs : /\ f.presence > 0 /\ PolicyPresent(Top.msg, f)
                       /\ ~NonZero(Mem(Top.msg, f.offset)) /\ InOutput(f)
      /\ \E g \in fs : g.presence < 0 /\ PolicyPresent(Top.msg, g) /\ InOutput(g)
      /\ \E h \in fs : h.presence < 0 /\ ~PolicyPresent(Top.msg, h) /\ ~InOutput(h)
      /\ \E k \in fs : k.presence = 0 /\ PolicyPresent(Top.msg, k) /\ InOutput(k)
      /\ \E z \in fs : z.presence = 0 /\ ~PolicyPresent(Top.msg, z) /\ ~InOutput(z)

-----------------------------------------------------------------------------
(* Containers without elements *)

\* The field is repeated or a map and its container is null or holds nothing
EmptyContainer(msg, f) ==
  \/ f.mode = "ARRAY" /\ (Mem(msg, f.offset).null \/ Mem(msg, f.offset).len = 0)
  \/ f.mode = "MAP" /\ (Mem(msg, f.offset).null \/ Mem(msg, f.offset).entries = <<>>)

(* C24: a repeated field whose array handle is null or has len 0, and a    *)
(* map field whose map handle is null or has no entries, writes no bytes   *)
(* at all: handling it leaves buffer and depth counter as they are and     *)
(* leaves no write to be done (at most the pop of the sorted view of an    *)
(* empty map), and the output of its message holds no record with its      *)
(* number; in particular an empty packed field has no tag with length 0.   *)
C24_EmptyContainersWriteNothing ==
  [][/\ Running("field") /\ EmptyContainer(Top.msg, Top.f) =>
          LET n == Len(stack') - Len(Tail(stack))
          IN  /\ UNCHANGED <<buf, ptr, depth, pc>>
              /\ n \in {0, 1}
              /\ SubSeq(stack', n + 1, Len(stack')) = Tail(stack)
              /\ \A i \in 1..n : stack'[i].op = "popmap"
     /\ Running("popmap") => UNCHANGED <<buf, ptr, depth, pc>>
     /\ AtMsgEnd =>
          /\ SegRecs.ok
          /\ \A f \in FieldsOf(Top.m) :
               EmptyContainer(Top.msg, f) =>
                 \A i \in 1..DeclaredCount : SegRecs.recs[i].number # f.number]_vars

\* A message is written that holds an array of messages, an array of groups
\* and a map, each not null and without elements, beside a field with a value
C24_Witness ==
  /\ AtMsgEnd
  /\ \E f, g \in FieldsOf(Top.m) :
       /\ f.mode = "ARRAY" /\ IsMessageType(f)
       /\ ~Mem(Top.msg, f.offset).null /\ Mem(Top.msg, f.offset).len = 0
       /\ g.mode = "MAP"
       /\ ~Mem(Top.msg, g.offset).null /\ Mem(Top.msg, g.offset).entries = <<>>
  /\ HasOption(options, UPB_ENCODE_DETERMINISTIC)
  /\ Len(Segment) > 0
  /\ depth = DepthBudget(options)

-----------------------------------------------------------------------------
(* The records of values: the type table of the wire format *)

WireTypeOf(t) ==
  CASE t \in VarintTypes -> UPB_WIRE_TYPE_VARINT
    [] t \in Fixed32Types -> UPB_WIRE_TYPE_32BIT
    [] t \in Fixed64Types -> UPB_WIRE_TYPE_64BIT
    [] t = "GROUP" -> UPB_WIRE_TYPE_START_GROUP
    [] OTHER -> UPB_WIRE_TYPE_DELIMITED

\* The 64-bit value v is the varint of the value x of type t: the sign
\* extension of an int32, the zero extension of a uint32, a bool or a zigzag
\* code of a sint32, the zigzag code of a sint64
VarintMatches(t, v, x) ==
  CASE t \in {"INT32", "ENUM"} ->
         SubSeq(v, 1, 32) = x /\ \A i \in 33..64 : v[i] = x[32]
    [] t = "UINT32" -> SubSeq(v, 1, 32) = x /\ \A i \in 33..64 : v[i] = 0
    [] t = "BOOL" -> SubSeq(v, 1, 8) = x /\ \A i \in 9..64 : v[i] = 0
    [] t \in {"INT64", "UINT64"} -> v = x
    [] t = "SINT32" -> ZigZagDecode(SubSeq(v, 1, 32)) = x /\ \A i \in 33..64 : v[i] = 0
    [] t = "SINT64" -> ZigZagDecode(v) = x

\* The record r of bytes is the record of the value x of type t under the
\* field number: the tag, the length where the type is length-delimited, the
\* value; for a group the START_GROUP tag, the body and the END_GROUP tag
RecordOf(bytes, r, number, t, x, sub) ==
  LET raw == Raw(bytes, r)
      tag == TagBytes(number, WireTypeOf(t))
  IN  /\ r.number = number
      /\ r.wt = WireTypeOf(t)
      /\ CASE t \in VarintTypes ->
                VarintMatches(t, r.val, x) /\ raw = tag \o CanonicalVarint(r.val)
           [] t \in Fixed32Types \cup Fixed64Types -> raw = tag \o LEBytes(x)
           [] t \in {"STRING", "BYTES"} -> raw = tag \o LengthBytes(Len(x)) \o x
           [] t = "MESSAGE" ->
                /\ raw = tag \o LengthBytes(Len(r.val)) \o r.val
                /\ WellFramed(r.val, x, sub, MaxChain + 1)
           [] t = "GROUP" ->
                /\ raw = tag \o r.val \o TagBytes(number, UPB_WIRE_TYPE_END_GROUP)
                /\ WellFramed(r.val, x, sub, MaxChain + 1)

\* The sub-layout of a field, if it has one
SubOf(m, f) ==
  IF f.mode = "MAP" \/ IsMessageType(f) THEN Layout(m).subs[f.submsg_index + 1] ELSE ""

-----------------------------------------------------------------------------
(* Unpacked repeated fields *)

UnpackedArrays(msg, m) ==
  {f \in FieldsOf(m) : f.mode = "ARRAY" /\ ~f.packed /\ ~EmptyContainer(msg, f)}

\* Every element of the unpacked field f is a record of its own, in the order
\* of the array
UnpackedRecordsOf(f) ==
  LET rs == SelectRecs(SegRecs.recs, {f.number})
      arr == Mem(Top.msg, f.offset)
  IN  /\ Len(rs) = arr.len
      /\ \A i \in 1..Len(rs) :
           RecordOf(Segment, rs[i], f.number, f.descriptortype, arr.data[i], SubOf(Top.m, f))

(* C25: every element of an unpacked repeated field appears in the output  *)
(* as its own record, one tag per element with the field's number and the  *)
(* element type's wire type followed by the element's value (string/bytes  *)
(* and message elements with a length in between), and the records appear  *)
(* in the array's original element order.                                  *)
C25_UnpackedRecords ==
  AtMsgEnd =>
    /\ SegRecs.ok
    /\ \A f \in UnpackedArrays(Top.msg, Top.m) : UnpackedRecordsOf(f)

\* The same but for the fixed-width elements on a big-endian host
UnpackedRecordsButBigEndianFixed ==
  AtMsgEnd =>
    /\ SegRecs.ok
    /\ \A f \in UnpackedArrays(Top.msg, Top.m) :
         \/ (big_endian /\ f.descriptortype \in Fixed32Types \cup Fixed64Types)
         \/ UnpackedRecordsOf(f)

\* An unpacked array of two or more different elements is written: negative
\* enums, strings of which one is empty, messages or groups
UnpackedRecordsWitness ==
  /\ AtMsgEnd
  /\ \E f \in UnpackedArrays(Top.msg, Top.m) :
       /\ f.descriptortype \in {"ENUM", "STRING", "MESSAGE", "GROUP", "DOUBLE"}
       /\ Mem(Top.msg, f.offset).len >= 2
       /\ Mem(Top.msg, f.offset).data[1] # Mem(Top.msg, f.offset).data[2]
       /\ UnpackedRecordsOf(f)

-----------------------------------------------------------------------------
(* Map entries *)

NonEmptyMaps(msg, m) ==
  {f \in FieldsOf(m) : f.mode = "MAP" /\ ~EmptyContainer(msg, f)}

\* The record r of the map field f is the entry ent: the tag of the map
\* field, the length of what follows, the key as field 1 and the value as
\* field 2, and nothing else
EntryRecordOf(f, r, ent, layout) ==
  LET q == Parse(r.val)
      key_field == Layout(layout).fields[1]
      val_field == Layout(layout).fields[2]
  IN  /\ r.number = f.number
      /\ r.wt = UPB_WIRE_TYPE_DELIMITED
      /\ Raw(Segment, r) = TagBytes(f.number, UPB_WIRE_TYPE_DELIMITED)
                           \o LengthBytes(Len(r.val)) \o r.val
      /\ q.ok
      /\ Len(q.recs) = 2
      /\ RecordOf(r.val, q.recs[1], 1, key_field.descriptortype, ent.k, "")
      /\ RecordOf(r.val, q.recs[2], 2, val_field.descriptortype, ent.v,
                  SubOf(layout, val_field))
      /\ r.val = Raw(r.val, q.recs[1]) \o Raw(r.val, q.recs[2])

MapRecordsOf(f) ==
  LET rs == SelectRecs(SegRecs.recs, {f.number})
      entries == Mem(Top.msg, f.offset).entries
      layout == SubOf(Top.m, f)
  IN  /\ Len(rs) = Len(entries)
      /\ \A i \in 1..Len(rs) : \E j \in 1..Len(entries) :
           EntryRecordOf(f, rs[i], entries[j], layout)
      /\ \A j \in 1..Len(entries) : \E i \in 1..Len(rs) :
           EntryRecordOf(f, rs[i], entries[j], layout)

MapEntryOfMessageWitness ==
  /\ AtMsgEnd
  /\ \E f \in NonEmptyMaps(Top.msg, Top.m) :
       /\ Layout(SubOf(Top.m, f)).fields[2].descriptortype = "MESSAGE"
       /\ LET rs == SelectRecs(SegRecs.recs, {f.number})
          IN  \E i \in 1..Len(rs) : Len(rs[i].val) > 6
       /\ MapRecordsOf(f)

-----------------------------------------------------------------------------
(* Scalar fields *)

\* The scalar fields that put a record in the output
WrittenScalars(msg, m) ==
  {f \in FieldsOf(m) :
     f.mode = "SCALAR" /\ PolicyPresent(msg, f) /\ ~EmitterWritesNothing(msg, f)}

ScalarRecordOf(f) ==
  LET rs == SelectRecs(SegRecs.recs, {f.number})
  IN  /\ Len(rs) = 1
      /\ RecordOf(Segment, rs[1], f.number, f.descriptortype, Mem(Top.msg, f.offset),
                  SubOf(Top.m, f))

(* C27: for every scalar field of every descriptor type, the output record *)
(* starts with the varint of (field_number << 3) | wire_type, with the     *)
(* wire type and value encoding the type table gives (fixed64, fixed32,    *)
(* varint, zigzag varint for SINT32/SINT64, length-prefixed bytes),        *)
(* followed by the length where the type is length-delimited and then the  *)
(* value; a GROUP is START_GROUP tag, body, END_GROUP tag with no length.   *)
C27_ScalarRecords ==
  AtMsgEnd =>
    /\ SegRecs.ok
    /\ \A f \in WrittenScalars(Top.msg, Top.m) : ScalarRecordOf(f)

\* A scalar field of type t is written with a value whose top bit is set
WrittenNegative(t) ==
  \E f \in WrittenScalars(Top.msg, Top.m) :
    /\ f.descriptortype = t
    /\ Mem(Top.msg, f.offset)[Len(Mem(Top.msg, f.offset))] = 1

WrittenTypes == {f.descriptortype : f \in WrittenScalars(Top.msg, Top.m)}

\* A negative SINT32, a BOOL, a STRING and an INT32 with its hasbit are
\* written on a big-endian host
C27_Witness ==
  /\ AtMsgEnd /\ big_endian
  /\ {"BOOL", "STRING", "INT32"} \subseteq WrittenTypes /\ WrittenNegative("SINT32")
  /\ \A f \in WrittenScalars(Top.msg, Top.m) : ScalarRecordOf(f)

\* The other types: a negative SINT64 with FIXED64 and INT64; UINT32, DOUBLE
\* and FIXED32; FLOAT, UINT64, SFIXED32 and SFIXED64; ENUM; BYTES; a MESSAGE
\* and a GROUP with bodies
ScalarTypesWitness64 ==
  /\ AtMsgEnd /\ big_endian
  /\ {"FIXED64", "INT64"} \subseteq WrittenTypes /\ WrittenNegative("SINT64")
  /\ \A f \in WrittenScalars(Top.msg, Top.m) : ScalarRecordOf(f)

ScalarTypesWitnessDouble ==
  /\ AtMsgEnd /\ big_endian
  /\ {"DOUBLE", "FIXED32"} \subseteq WrittenTypes /\ WrittenNegative("UINT32")
  /\ \A f \in WrittenScalars(Top.msg, Top.m) : ScalarRecordOf(f)

ScalarTypesWitnessT ==
  /\ AtMsgEnd /\ big_endian
  /\ {"FLOAT", "UINT64", "SFIXED32", "SFIXED64"} \subseteq WrittenTypes
  /\ \A f \in WrittenScalars(Top.msg, Top.m) : ScalarRecordOf(f)

ScalarTypesWitnessEnum ==
  /\ AtMsgEnd /\ WrittenNegative("ENUM")
  /\ \A f \in WrittenScalars(Top.msg, Top.m) : ScalarRecordOf(f)

ScalarTypesWitnessBytes ==
  /\ AtMsgEnd /\ "BYTES" \in WrittenTypes
  /\ \A f \in WrittenScalars(Top.msg, Top.m) : ScalarRecordOf(f)

ScalarTypesWitnessGroup ==
  /\ AtMsgEnd
  /\ \E f \in WrittenScalars(Top.msg, Top.m) :
       /\ f.descriptortype = "GROUP"
       /\ Len(SelectRecs(SegRecs.recs, {f.number})[1].val) > 0
  /\ \A f \in WrittenScalars(Top.msg, Top.m) : ScalarRecordOf(f)

ScalarTypesWitnessMessage ==
  /\ AtMsgEnd
  /\ \E f \in WrittenScalars(Top.msg, Top.m) :
       /\ f.descriptortype = "MESSAGE"
       /\ Len(SelectRecs(SegRecs.recs, {f.number})[1].val) > 0
  /\ \A f \in WrittenScalars(Top.msg, Top.m) : ScalarRecordOf(f)

-----------------------------------------------------------------------------
(* The life of the map sorter *)

\* The calls of upb_encode_ex so far that have returned
Returned == IF pc = "done" THEN run ELSE run - 1

\* The sorted views that are pushed and not popped
PendingPops == {i \in 1..Len(stack) : stack[i].op = "popmap"}

(* C28: the map-sorter scratch is initialized once at the start of every   *)
(* encode and destroyed exactly once before upb_encode_ex returns, on      *)
(* every exit path: success, out-of-memory and max-depth, including a      *)
(* failure raised while a sorted map is still pushed on the sorter.        *)
C28_SorterLife ==
  /\ sorter.inits = IF pc = "start" THEN run - 1 ELSE run
  /\ sorter.destroys = Returned
  /\ pc = "done" => sorter.entries = <<>> /\ status \in {"ok", "oom", "maxdepth"}

\* An out-of-memory failure while a sorted view is pushed, after which
\* upb_encode_ex has returned
C28_Witness ==
  /\ pc = "done" /\ status = "oom"
  /\ PendingPops # {}
  /\ sorter.inits = 1 /\ sorter.destroys = 1

\* The same for the depth budget, and for a success after a push and a pop
SorterLifeMaxDepthWitness ==
  /\ pc = "done" /\ status = "maxdepth"
  /\ PendingPops # {}
  /\ sorter.inits = 1 /\ sorter.destroys = 1

SorterLifeSuccessWitness ==
  /\ pc = "done" /\ status = "ok"
  /\ HasOption(options, UPB_ENCODE_DETERMINISTIC)
  /\ NonEmptyMaps(root, RootLayout(root)) # {}
  /\ sorter.inits = 1 /\ sorter.destroys = 1

-----------------------------------------------------------------------------
(* The depth counter *)

\* The emitters that have not returned and have their depth++ to come, and
\* those of them that have their --depth to come as well
PendingIncs == Cardinality({i \in 1..Len(stack) : stack[i].op = "depth_inc"})
PendingDecs == Cardinality({i \in 1..Len(stack) : stack[i].op = "depth_dec"})

\* The levels taken by the emitters that have not returned
LevelsTaken == PendingIncs - PendingDecs

(* C29: the depth counter is balanced: after any field emitter (scalar,    *)
(* array or map) returns normally, the depth counter has the value it had  *)
(* when that emitter was entered, so the budget limits nesting depth only  *)
(* and sibling sub-messages at the same level all see the same remaining   *)
(* depth.                                                                  *)
C29_DepthBalanced ==
  pc = "encoding" =>
    /\ depth + LevelsTaken = DepthBudget(options)
    /\ depth >= 1
    /\ stack # <<>> /\ Top.op \in {"field", "msg_end"} => PendingDecs = 0
    /\ stack = <<>> => depth = DepthBudget(options)

\* The second of two sibling sub-messages of an array is about to be encoded,
\* the first has been, one level below the root
C29_Witness ==
  /\ Running("message")
  /\ size # Garbage
  /\ LevelsTaken = 1 /\ Activations = 1
  /\ depth = DepthBudget(options) - 1
  /\ Len(stack) >= 4 /\ stack[4].op = "depth_inc"

\* The emitter of a field with a sub-message has returned and the next field
\* of the root is about to be looked at
DepthBalancedNextFieldWitness ==
  /\ Running("field") /\ Top.msg = root
  /\ size # Garbage /\ ptr < Len(buf)
  /\ depth = DepthBudget(options)

-----------------------------------------------------------------------------
(* Extensions and the presence policy *)

\* The extensions of an extendable message that is not a MessageSet
ExtensionsOf(msg, m) ==
  IF Layout(m).ext = "EXTENDABLE" THEN {i \in 1..Len(heap[msg].exts) : TRUE} ELSE {}

IsDefault(x) ==
  /\ x.ext.field.mode = "SCALAR"
  /\ ~IsMessageType(x.ext.field)
  /\ \/ x.data = <<>>
     \/ \A k \in 1..Len(x.data) : x.data[k] = 0

\* The extension x has its record in the output, with its tag and its value
ExtensionRecordOf(x) ==
  LET f == x.ext.field
      rs == SelectRecs(SegRecs.recs, {f.number})
  IN  /\ Len(rs) = 1
      /\ RecordOf(Segment, rs[1], f.number, f.descriptortype, x.data, x.ext.sub)

(* C30: extensions bypass the presence policy: every extension attached to *)
(* an extendable (non-MessageSet) message is passed to the field emitter   *)
(* without a presence check, so a scalar extension whose stored value is   *)
(* the default (zero or empty string) is still emitted with its tag.       *)
C30_ExtensionsBypassPolicy ==
  [][/\ Running("field") /\ ~Top.check =>
          stack' = encode_field_impl(Top.msg, Top.subs, Top.f, PreLen, sorter', options)
                   \o Tail(stack)
     /\ Running("message") /\ pc' = "encoding" =>
          \A i \in ExtensionsOf(Top.msg, Top.m) :
            \E k \in 1..Len(stack') :
              /\ stack'[k].op = "field" /\ ~stack'[k].check
              /\ stack'[k].msg = <<"ext", Top.msg, i>>
              /\ stack'[k].f = heap[Top.msg].exts[i].ext.field
     /\ AtMsgEnd =>
          /\ SegRecs.ok
          /\ \A i \in ExtensionsOf(Top.msg, Top.m) :
               LET x == heap[Top.msg].exts[i]
               IN  x.ext.field.mode = "SCALAR" /\ x.data # NULL => ExtensionRecordOf(x)]_vars

\* A message whose extensions are an int32 of value 0 and an empty string is
\* written: two records, of two bytes each for the numbers 101 and 102
C30_Witness ==
  /\ AtMsgEnd
  /\ \E i, j \in ExtensionsOf(Top.msg, Top.m) :
       /\ IsDefault(heap[Top.msg].exts[i]) /\ heap[Top.msg].exts[i].data = I32(0)
       /\ IsDefault(heap[Top.msg].exts[j]) /\ heap[Top.msg].exts[j].data = <<>>
       /\ ExtensionRecordOf(heap[Top.msg].exts[i])
       /\ ExtensionRecordOf(heap[Top.msg].exts[j])
  /\ Len(Segment) >= 6

====
